---- MODULE Spec2Model ----
(***************************************************************************)
(* Model of the USB relay RTU arbitration daemon (src/src/daemon.py) and   *)
(* of the controller operations it drives (src/src/device_controller.py,   *)
(* src/src/modbus_rtu.py).                                                 *)
(*                                                                         *)
(* Spec      one USBRelayDaemon instance with its threads: the main thread *)
(*           (start / stop), the background poller and the per-connection  *)
(*           handlers, all sharing one serial transport and one device.    *)
(* SpecLife  several USBRelayDaemon instances and smart clients for the    *)
(*           same device identifier: start, stop, the liveness artifact    *)
(*           (the Unix socket path) and the daemon / direct dispatch.      *)
(* SpecPoll  the daemon's poller and handlers under fair scheduling.       *)
(* SpecRtu   byte sequences through the checksum and frame functions.      *)
(* SpecExec  the ModbusRTUClient operations against an answering device.   *)
(* SpecRecv  one call of _receive_frame, time counted in ticks.            *)
(* SpecPulse a pulse by the daemon and a pulse on the direct path.         *)
(* SpecToggle one toggle invocation: the client's passes, the daemon's     *)
(*           handlers with their retries, and the direct mode.             *)
(* SpecStatus the status cache field by field: the poller's assignments,   *)
(*           the get_status reads and stop() beside them.                  *)
(***************************************************************************)
EXTENDS Integers, Sequences, FiniteSets, TLC

\* ------------------------------------------------------------------ bounds
\* Time in ticks: the timeout of a ModbusRTUClient, the idle gap that ends a
\* frame, and the tick at which the clock of the model stops.
TimeoutTicks == 3
IdleTicks == 1
MaxTime == 8
\* Calls of one operation made in a row.
MaxCalls == 2
\* Largest number of bits or registers a read asks for, 9 bits apart.
MaxCount == 3
\* Longest byte sequence, drawn from ByteSamples, given to the frame functions.
MaxBytes == 3
\* time.time() is counted in completed polls and saturates at MaxPolls; the
\* poll cycles of SpecStatus end at MaxPolls.
MaxPolls == 2

\* ------------------------------------------------------- program constants
\* ModbusRTUClient.FUNCTION_*
FUNCTION_READ_COILS == 1
FUNCTION_READ_DISCRETE_INPUTS == 2
FUNCTION_READ_HOLDING_REGISTERS == 3
FUNCTION_READ_INPUT_REGISTERS == 4
FUNCTION_WRITE_SINGLE_COIL == 5
FUNCTION_WRITE_SINGLE_REGISTER == 6
\* USBRelayController: slave_id = 1, self.relay_start_address = 0x0000
slave_id_default == 1
relay_start_address == 0
max_retries == 2
\* DaemonClient.send_command: max_retries = 1 if self.is_windows else 2
client_max_retries == 2

\* ------------------------------------------------------------------ threads
Poller == "poller"
Handlers == {"h1", "h2"}
Threads == Handlers \cup {Poller}
NoThread == "none"

\* Daemon instances started for the same port, and smart client operations.
Instances == {"d1", "d2"}
Clients == {"c1", "c2"}

\* The relays and inputs of the modelled device (1..count in the source).
RelayIds == {1}

VARIABLES
  \* ---- USBRelayDaemon fields (Spec)
  running,             \* self.running
  controller,          \* "none" | "open" | "closed": self.controller and its serial port
  server_socket,       \* "none" | "listening" | "closed"
  main,                \* position of the thread that runs start() and stop()
  serial_lock,         \* holder of self.serial_lock, or NoThread
  last_relay_states,   \* status cache
  last_input_states,
  last_status_time,
  \* ---- threads
  pc,                  \* position of the poller and of each handler
  request,             \* the request a handler is serving
  attempt,             \* loop variable of _process_request_with_retry
  response,            \* the response a handler has built
  current_state,       \* toggle_relay's local current_state.state
  relay_list,          \* the poller's local relay_list
  \* ---- the device and the clock
  coils,               \* relay bit table of the device
  inputs,              \* input bit table of the device (its levels do not change in a run)
  \* ---- observation
  sent,                \* a handler has sent a request frame for its current request
  fault_retried,       \* a handler is retrying its current request after a device fault
  waitq,               \* handlers waiting for serial_lock, in order of arrival
  toggles_ok,          \* parity of the toggles answered with success true
  only_toggles,        \* every write requested so far was a toggle, and none was answered with a failure
  \* ---- SpecLife: the instances and smart clients of one device identifier
  socket_path,         \* the liveness artifact: "absent", or the instance bound to it
  inst_pc,             \* position of each instance in start() / stop()
  inst_running,        \* self.running of each instance
  inst_controller,     \* "none" | "open" | "closed": each instance's serial transport
  inst_socket,         \* "none" | "created" | "bound" | "listening" | "closed"
  cl_pc,               \* position of each smart client operation
  cl_attempt,          \* loop variable of DaemonClient.send_command
  cl_controller,       \* "none" | "open" | "closed": a client's direct transport
  cl_op,               \* "relay" (execute_relay_command_smart) | "status" (get_status_smart)
  cl_result,           \* the value the smart operation returns
  cl_path,             \* the path the operation took: "daemon" | "fallback" | "direct"
  cl_connects,         \* connections to the daemon socket attempted by the operation
  cl_socket,           \* send_command's client_socket: "none" | "unconnected" | "connected" | "closed"
  \* ---- SpecRtu: one pass of bytes through the frame functions of modbus_rtu.py
  rtu_pc,              \* "idle" | "calculated" | "built" | "received" | "verified" | "parsed" ...
  rtu_data,            \* the byte sequence handed to calculate / _build_frame
  rtu_crc,             \* what ModbusCRC16.calculate returned, <<>> before the call
  rtu_frame,           \* what _build_frame returned, <<>> before the call
  rtu_rx,              \* the byte sequence handed to ModbusCRC16.verify
  rtu_valid,           \* what ModbusCRC16.verify returned
  rtu_parsed,          \* what _parse_response returned or raised
  \* ---- SpecExec: calls of the ModbusRTUClient operations against a device
  rtu_req,             \* the operation called and its arguments
  rtu_result,          \* what the operation returned or raised
  rtu_done,            \* the calls completed before this one, with their results
  rtu_exec,            \* the device has executed the request of this call
  dev_coils,           \* the device's bit table A, by address
  \* ---- SpecRecv: one call of _receive_frame, time counted in ticks
  rx_pc,               \* "idle" | "wait" | "read" | "returned" | "raised"
  rx_now,              \* time.time()
  rx_start,            \* start_time
  rx_last,             \* last_receive_time
  rx_waiting,          \* self.serial_port.in_waiting > 0
  \* ---- SpecPulse: one pulse through the daemon and one on the direct path
  pl_dev,              \* how the device answers the 'on' write and the 'off' write
  pl_pc,               \* position of each path in its pulse
  pl_attempt,          \* the daemon's retry loop variable
  pl_result,           \* the success value each path reports
  pl_writes,           \* the writes each path has sent
  \* ---- SpecToggle: one toggle invocation of a smart client against a running daemon
  tg_pc,               \* position of the client: "idle" | "send" | "recv" | "direct" ... | "done"
  tg_attempt,          \* loop variable of DaemonClient.send_command
  tg_result,           \* the value the invocation reports: "none" | "true" | "false"
  tg_hpc,              \* position of the handler of each connection of the invocation
  tg_hattempt,         \* loop variable of _process_request_with_retry, per handler
  tg_hstate,           \* toggle_relay's current_state.state, per handler
  tg_hsuccess,         \* the success field of each handler's response
  tg_lock,             \* the handler that holds serial_lock, or NoPass
  tg_dstate,           \* toggle_relay's current_state.state in the direct mode
  tg_relay,            \* the relay of the device
  tg_changes,          \* how often the relay has changed its state since the invocation
  \* ---- SpecStatus: the status cache, field by field, its writer and its readers
  sc_main,             \* position of stop(): "serving" | "stopping" | "stopped"
  sc_running,          \* self.running
  sc_pc,               \* position of the poller and of each handler
  sc_serial_lock,      \* holder of self.serial_lock, or NoThread
  status_cache_lock,   \* holder of self.status_cache_lock, or NoThread
  sc_cycle,            \* the poll cycles begun so far
  sc_cache,            \* for each cache field, the poll cycle that wrote it (0: __init__)
  sc_response          \* for each handler and field, the poll cycle its response carries

daemonVars == <<running, controller, server_socket, main>>
cacheVars  == <<last_relay_states, last_input_states, last_status_time>>
localVars  == <<request, attempt, response, current_state, relay_list>>
deviceVars == <<coils, inputs>>
obsVars    == <<sent, waitq, toggles_ok, only_toggles, fault_retried>>
clientVars == <<cl_pc, cl_attempt, cl_controller, cl_op, cl_result, cl_path, cl_connects, cl_socket>>
lifeVars   == <<socket_path, inst_pc, inst_running, inst_controller, inst_socket, clientVars>>
coreVars   == <<daemonVars, cacheVars, localVars, deviceVars, obsVars, serial_lock, pc>>
execVars   == <<rtu_req, rtu_result, rtu_done, rtu_exec, dev_coils>>
recvVars   == <<rx_pc, rx_now, rx_start, rx_last, rx_waiting>>
pulseVars  == <<pl_dev, pl_pc, pl_attempt, pl_result, pl_writes>>
toggleVars == <<tg_pc, tg_attempt, tg_result, tg_hpc, tg_hattempt, tg_hstate, tg_hsuccess,
                tg_lock, tg_dstate, tg_relay, tg_changes>>
statusVars == <<sc_main, sc_running, sc_pc, sc_serial_lock, status_cache_lock, sc_cycle,
                sc_cache, sc_response>>
rtuVars    == <<rtu_pc, rtu_data, rtu_crc, rtu_frame, rtu_rx, rtu_valid, rtu_parsed,
                execVars, recvVars, pulseVars, toggleVars, statusVars>>
vars == <<coreVars, lifeVars, rtuVars>>

\* ------------------------------------------------------------- IPC messages
NoRequest == [command |-> "none", relay_id |-> 0, state |-> "none"]
Requests ==
  {[command |-> "get_status", relay_id |-> 0, state |-> "none"],
   [command |-> "bogus", relay_id |-> 0, state |-> "none"]}
  \cup [command : {"set_relay"}, relay_id : RelayIds, state : {"on", "off", "null"}]
  \cup [command : {"pulse_relay"}, relay_id : RelayIds, state : {"none"}]

Response(success, error, relays, ins, t) ==
  [success |-> success, error |-> error, relay_states |-> relays,
   input_states |-> ins, last_update |-> t]
NoResponse == Response(FALSE, "none", <<>>, <<>>, 0)
Busy       == Response(FALSE, "busy", <<>>, <<>>, 0)
Unknown    == Response(FALSE, "unknown command", <<>>, <<>>, 0)
Failed(e)  == Response(FALSE, e, <<>>, <<>>, 0)
Success(b) == Response(b, "", <<>>, <<>>, 0)

AllFalse == [i \in RelayIds |-> FALSE]

\* The value a smart operation returns: execute_relay_command_smart a bare bool
\* (error ""), get_status_smart a dict with success and, on failure, an error text.
Result(success, error) == [success |-> success, error |-> error]
NoResult == Result(FALSE, "none")

\* Positions at which a thread has sent a request frame and awaits the response.
HandlerWait ==
  {"set_wait", "tog_read_wait", "tog_write_wait", "pulse_on_wait", "pulse_off_wait"}
PollerWait == {"poll_relays_wait", "poll_inputs_wait"}
InTransaction(t) == pc[t] \in HandlerWait \cup PollerWait

\* USBRelayController.is_connected
is_connected == controller = "open"

\* ------------------------------------------------------------ construction
\* No instance started, no client operation under way.
InitLifeVars ==
  /\ socket_path = "absent"
  /\ inst_pc = [d \in Instances |-> "new"]
  /\ inst_running = [d \in Instances |-> FALSE]
  /\ inst_controller = [d \in Instances |-> "none"]
  /\ inst_socket = [d \in Instances |-> "none"]
  /\ cl_pc = [c \in Clients |-> "idle"]
  /\ cl_attempt = [c \in Clients |-> 0]
  /\ cl_controller = [c \in Clients |-> "none"]
  /\ cl_op = [c \in Clients |-> "none"]
  /\ cl_result = [c \in Clients |-> NoResult]
  /\ cl_path = [c \in Clients |-> "none"]
  /\ cl_connects = [c \in Clients |-> 0]
  /\ cl_socket = [c \in Clients |-> "none"]

\* USBRelayDaemon.__init__
InitCoreVars ==
  /\ running = FALSE
  /\ controller = "none"
  /\ server_socket = "none"
  /\ main = "new"
  /\ serial_lock = NoThread
  /\ last_relay_states = AllFalse
  /\ last_input_states = AllFalse
  /\ last_status_time = 0
  /\ pc = [t \in Threads |-> IF t = Poller THEN "unstarted" ELSE "closed"]
  /\ request = [h \in Handlers |-> NoRequest]
  /\ attempt = [h \in Handlers |-> 0]
  /\ response = [h \in Handlers |-> NoResponse]
  /\ current_state = [h \in Handlers |-> FALSE]
  /\ relay_list = AllFalse
  /\ coils = AllFalse
  /\ inputs \in [RelayIds -> BOOLEAN]
  /\ sent = [h \in Handlers |-> FALSE]
  /\ fault_retried = [h \in Handlers |-> FALSE]
  /\ waitq = <<>>
  /\ toggles_ok = FALSE
  /\ only_toggles = TRUE

\* ModbusRTUResponse(slave_id, function_code, data, raw_data), or the exception
\* _parse_response raised in its place: error is "none", "too_short" or "crc".
Parsed(error, slave_id, function_code, data) ==
  [error |-> error, slave_id |-> slave_id, function_code |-> function_code, data |-> data]
NoParse == Parsed("unparsed", 0, 0, <<>>)

\* A call of a ModbusRTUClient operation: read_coils(slave_id, address, count),
\* write_single_coil(slave_id, address, value), ...
Call(fn, slave_id, address, count, value) ==
  [fn |-> fn, slave_id |-> slave_id, address |-> address, count |-> count, value |-> value]
NoCall == Call("none", 0, 0, 0, FALSE)

\* What a call came to: kind is "returned" with its value, or "raised" with the
\* exception as error.
Outcome(kind, error, value) == [kind |-> kind, error |-> error, value |-> value]
NoOutcome == Outcome("none", "none", <<>>)

\* The two paths of a pulse.
Paths == {"daemon", "direct"}

\* No bytes under way.
InitFrameVars ==
  /\ rtu_pc = "idle"
  /\ rtu_data = <<>>
  /\ rtu_crc = <<>>
  /\ rtu_frame = <<>>
  /\ rtu_rx = <<>>
  /\ rtu_valid = FALSE
  /\ rtu_parsed = NoParse

\* The coil addresses of the device: relays 1 and 2, and one address above 255.
CoilAddresses == {0, 1, 258}

\* No call made.
InitExecVars ==
  /\ rtu_req = NoCall
  /\ rtu_result = NoOutcome
  /\ rtu_done = <<>>
  /\ rtu_exec = FALSE
  /\ dev_coils = [a \in CoilAddresses |-> FALSE]

\* _receive_frame not called.
InitRecvVars ==
  /\ rx_pc = "idle"
  /\ rx_now = 0
  /\ rx_start = 0
  /\ rx_last = 0
  /\ rx_waiting = FALSE

\* No pulse requested.
InitPulseVars ==
  /\ pl_dev = [w \in {"on", "off"} |-> "ack"]
  /\ pl_pc = [p \in Paths |-> "idle"]
  /\ pl_attempt = 0
  /\ pl_result = [p \in Paths |-> "none"]
  /\ pl_writes = [p \in Paths |-> <<>>]

\* The connections one send_command can make: one per pass of its loop.
Passes == 0..client_max_retries
NoPass == 0 - 1

\* No toggle invoked; the relay is off.
InitToggleVars ==
  /\ tg_pc = "idle"
  /\ tg_attempt = 0
  /\ tg_result = "none"
  /\ tg_hpc = [k \in Passes |-> "none"]
  /\ tg_hattempt = [k \in Passes |-> 0]
  /\ tg_hstate = [k \in Passes |-> FALSE]
  /\ tg_hsuccess = [k \in Passes |-> FALSE]
  /\ tg_lock = NoPass
  /\ tg_dstate = FALSE
  /\ tg_relay = FALSE
  /\ tg_changes = 0

\* The fields of the status cache, in the order of their assignment.
Fields == <<"relay_states", "input_states", "last_update">>

\* A running daemon with its cache as __init__ left it; no response built.
InitStatusVars ==
  /\ sc_main = "serving"
  /\ sc_running = TRUE
  /\ sc_pc = [t \in Threads |-> IF t = Poller THEN "sleep" ELSE "recv"]
  /\ sc_serial_lock = NoThread
  /\ status_cache_lock = NoThread
  /\ sc_cycle = 0
  /\ sc_cache = [i \in 1..3 |-> 0]
  /\ sc_response = [h \in Handlers |-> <<>>]

InitRtuVars ==
  InitFrameVars /\ InitExecVars /\ InitRecvVars /\ InitPulseVars /\ InitToggleVars /\ InitStatusVars

Init == InitCoreVars /\ InitLifeVars /\ InitRtuVars

\* --------------------------------------------------------------- the device
\* The device executes a request frame at some moment between the send and the
\* receipt of the response; the model places it at the receipt. exec: the frame
\* reached the device and was executed; a frame that did not changes nothing and
\* is never answered.
DeviceCoils(op, r, v, exec) ==
  IF exec /\ op = "write_single_coil" THEN [coils EXCEPT ![r] = v] ELSE coils

\* ModbusRTUClient.execute_request, second half: _receive_frame, _parse_response
\* and the address / error checks. reply is what arrives for an executed frame:
\*   "ok"        the intact response of the addressed device
\*   "garbled"   nothing in time, too few bytes or a wrong CRC
\*   "mismatch"  an intact frame carrying another slave address
\*   "error"     an exception response of the device (function code | 0x80)
Replies == {"ok", "garbled", "mismatch", "error"}
Received(exec, reply) == is_connected /\ exec /\ reply = "ok"

\* A device that answers with an exception response has rejected the request.
Executed(exec, reply) == exec /\ reply # "error"

\* The faults the device itself reports: a rejected request, a wrong address.
DeviceFaults == {"device_error", "address_mismatch"}

\* str(e) of the exception execute_request raises when the response is not received.
Fault(exec, reply) ==
  IF ~is_connected THEN "not_connected"
  ELSE IF exec /\ reply = "error" THEN "device_error"
  ELSE IF exec /\ reply = "mismatch" THEN "address_mismatch"
  ELSE "timeout"

Remove(q, h) == SelectSeq(q, LAMBDA x : x # h)

\* ------------------------------------------------------------ main thread
\* start(), the successful path up to the accept loop.
start ==
  /\ main = "new"
  /\ main' = "serving"
  /\ controller' = "open"
  /\ server_socket' = "listening"
  /\ running' = TRUE
  /\ pc' = [pc EXCEPT ![Poller] = "poll_sleep"]
  /\ UNCHANGED <<lifeVars, rtuVars, cacheVars, localVars, deviceVars, obsVars, serial_lock>>

\* start(), accept loop: one handler thread per connection; the thread enters
\* its loop, while self.running.
accept(h) ==
  /\ server_socket = "listening"
  /\ pc[h] = "closed"
  /\ pc' = [pc EXCEPT ![h] = IF running THEN "recv" ELSE "closed"]
  /\ UNCHANGED <<lifeVars, rtuVars, daemonVars, cacheVars, localVars, deviceVars, obsVars, serial_lock>>

\* stop(): self.running = False
stop_running ==
  /\ main = "serving"
  /\ running' = FALSE
  /\ main' = "stop_disconnect"
  /\ UNCHANGED <<lifeVars, rtuVars, controller, server_socket, cacheVars, localVars, deviceVars, obsVars,
                 serial_lock, pc>>

\* stop(): self.controller.disconnect()
stop_disconnect ==
  /\ main = "stop_disconnect"
  /\ controller' = "closed"
  /\ main' = "stop_close"
  /\ UNCHANGED <<lifeVars, rtuVars, running, server_socket, cacheVars, localVars, deviceVars, obsVars,
                 serial_lock, pc>>

\* stop(): self.server_socket.close() and the removal of the socket path
stop_close ==
  /\ main = "stop_close"
  /\ server_socket' = "closed"
  /\ main' = "stopped"
  /\ UNCHANGED <<lifeVars, rtuVars, running, controller, cacheVars, localVars, deviceVars, obsVars,
                 serial_lock, pc>>

\* ------------------------------------------- _process_request_with_retry
\* A return statement inside the handler's locked region: the response is kept
\* and the finally clause of _handle_client_safe releases serial_lock.
\* Mutant of Return: the response is handed to another connection's handler.
ReturnCrossed(h, r) ==
  /\ response' = [g \in Handlers |-> IF g = h THEN response[g] ELSE r]
  /\ serial_lock' = NoThread
  /\ fault_retried' = [fault_retried EXCEPT ![h] = FALSE]
  /\ pc' = [pc EXCEPT ![h] = "send"]
  /\ UNCHANGED attempt

\* Mutant of Return: the response is there, the lock is kept.
ReturnHolding(h, r) ==
  /\ response' = [response EXCEPT ![h] = r]
  /\ UNCHANGED serial_lock
  /\ fault_retried' = [fault_retried EXCEPT ![h] = FALSE]
  /\ pc' = [pc EXCEPT ![h] = "send"]
  /\ UNCHANGED attempt

Return(h, r) ==
  /\ response' = [response EXCEPT ![h] = r]
  /\ serial_lock' = NoThread
  /\ fault_retried' = [fault_retried EXCEPT ![h] = FALSE]
  /\ pc' = [pc EXCEPT ![h] = "send"]
  /\ UNCHANGED attempt

\* Mutant of Raise: the except clause never gives up.
RaiseAgain(h, e) ==
  /\ attempt' = [attempt EXCEPT ![h] = @ + 1]
  /\ pc' = [pc EXCEPT ![h] = "process"]
  /\ fault_retried' = [fault_retried EXCEPT ![h] = @ \/ e \in DeviceFaults]
  /\ UNCHANGED <<response, serial_lock, toggles_ok, only_toggles>>

\* The except clause: retry while attempt < max_retries, then report the failure.
Raise(h, e) ==
  IF attempt[h] < max_retries
  THEN /\ attempt' = [attempt EXCEPT ![h] = @ + 1]
       /\ pc' = [pc EXCEPT ![h] = "process"]
       /\ fault_retried' = [fault_retried EXCEPT ![h] = @ \/ e \in DeviceFaults]
       /\ UNCHANGED <<response, serial_lock, toggles_ok, only_toggles>>
  ELSE /\ Return(h, Failed(e))
       /\ only_toggles' = FALSE
       /\ toggles_ok' = FALSE

\* command == "get_status": the cached status.
process_get_status(h) ==
  /\ pc[h] = "process"
  /\ request[h].command = "get_status"
  /\ Return(h, Response(TRUE, "", last_relay_states, last_input_states, last_status_time))
  /\ UNCHANGED <<lifeVars, rtuVars, daemonVars, cacheVars, request, current_state, relay_list, deviceVars,
                 sent, waitq, toggles_ok, only_toggles>>

\* Any other command name.
process_unknown(h) ==
  /\ pc[h] = "process"
  /\ request[h].command \notin {"get_status", "set_relay", "pulse_relay"}
  /\ Return(h, Unknown)
  /\ UNCHANGED <<lifeVars, rtuVars, daemonVars, cacheVars, request, current_state, relay_list, deviceVars,
                 sent, waitq, toggles_ok, only_toggles>>

\* A controller call of the handler up to _send_frame: it raises when the
\* controller is not connected, else the request frame is on the line.
HandlerSend(h, next, otherWrite) ==
  IF is_connected
  THEN /\ pc' = [pc EXCEPT ![h] = next]
       /\ sent' = [sent EXCEPT ![h] = TRUE]
       /\ only_toggles' = (only_toggles /\ ~otherWrite)
       /\ toggles_ok' = (toggles_ok /\ only_toggles')
       /\ UNCHANGED <<attempt, response, serial_lock, waitq, fault_retried>>
  ELSE /\ Raise(h, "not_connected")
       /\ UNCHANGED <<sent, waitq>>

\* command == "set_relay" with a state: set_relay_state -> write_single_coil.
process_set_relay(h) ==
  /\ pc[h] = "process"
  /\ request[h].command = "set_relay"
  /\ request[h].state \in {"on", "off"}
  /\ HandlerSend(h, "set_wait", TRUE)
  /\ UNCHANGED <<lifeVars, rtuVars, daemonVars, cacheVars, request, current_state, relay_list, deviceVars>>

\* Mutant of set_relay_done: a successful write is written through to the cache.
set_relay_done_cached(h, exec, reply) ==
  /\ pc[h] = "set_wait"
  /\ coils' = DeviceCoils("write_single_coil", request[h].relay_id, request[h].state = "on", Executed(exec, reply))
  /\ IF Received(exec, reply)
     THEN /\ Return(h, Success(TRUE))
          /\ last_relay_states' =
               [last_relay_states EXCEPT ![request[h].relay_id] = request[h].state = "on"]
          /\ UNCHANGED <<toggles_ok, only_toggles>>
     ELSE /\ Raise(h, Fault(exec, reply))
          /\ UNCHANGED last_relay_states
  /\ UNCHANGED <<lifeVars, rtuVars, daemonVars, last_input_states, last_status_time, request,
                 current_state, relay_list, inputs, sent, waitq>>

set_relay_done(h, exec, reply) ==
  /\ pc[h] = "set_wait"
  /\ coils' = DeviceCoils("write_single_coil", request[h].relay_id, request[h].state = "on", Executed(exec, reply))
  /\ IF Received(exec, reply)
     THEN Return(h, Success(TRUE)) /\ UNCHANGED <<toggles_ok, only_toggles>>
     ELSE Raise(h, Fault(exec, reply))
  /\ UNCHANGED <<lifeVars, rtuVars, daemonVars, cacheVars, request, current_state, relay_list, inputs,
                 sent, waitq>>

\* command == "set_relay" with state None: toggle_relay, its get_relay_state.
process_toggle(h) ==
  /\ pc[h] = "process"
  /\ request[h].command = "set_relay"
  /\ request[h].state = "null"
  /\ HandlerSend(h, "tog_read_wait", FALSE)
  /\ UNCHANGED <<lifeVars, rtuVars, daemonVars, cacheVars, request, current_state, relay_list, deviceVars>>

toggle_read_done(h, exec, reply) ==
  /\ pc[h] = "tog_read_wait"
  /\ IF Received(exec, reply)
     THEN /\ current_state' = [current_state EXCEPT ![h] = coils[request[h].relay_id]]
          /\ pc' = [pc EXCEPT ![h] = "tog_write"]
          /\ UNCHANGED <<attempt, response, serial_lock, toggles_ok, only_toggles, fault_retried>>
     ELSE /\ Raise(h, Fault(exec, reply))
          /\ UNCHANGED current_state
  /\ UNCHANGED <<lifeVars, rtuVars, daemonVars, cacheVars, request, relay_list, deviceVars, sent, waitq>>

\* toggle_relay: set_relay_state(relay_id, not current_state.state)
toggle_write(h) ==
  /\ pc[h] = "tog_write"
  /\ HandlerSend(h, "tog_write_wait", FALSE)
  /\ UNCHANGED <<lifeVars, rtuVars, daemonVars, cacheVars, request, current_state, relay_list, deviceVars>>

toggle_write_done(h, exec, reply) ==
  /\ pc[h] = "tog_write_wait"
  /\ coils' = DeviceCoils("write_single_coil", request[h].relay_id, ~current_state[h], Executed(exec, reply))
  /\ current_state' = [current_state EXCEPT ![h] = FALSE]
  /\ IF Received(exec, reply)
     THEN /\ Return(h, Success(TRUE))
          /\ toggles_ok' = (only_toggles /\ ~toggles_ok)
          /\ UNCHANGED only_toggles
     ELSE Raise(h, Fault(exec, reply))
  /\ UNCHANGED <<lifeVars, rtuVars, daemonVars, cacheVars, request, relay_list, inputs, sent, waitq>>

\* command == "pulse_relay": turn_on_relay
process_pulse(h) ==
  /\ pc[h] = "process"
  /\ request[h].command = "pulse_relay"
  /\ HandlerSend(h, "pulse_on_wait", TRUE)
  /\ UNCHANGED <<lifeVars, rtuVars, daemonVars, cacheVars, request, current_state, relay_list, deviceVars>>

\* Mutant of pulse_on_done: the lock is given up for the time of the sleep.
pulse_on_done_unlocked(h, exec, reply) ==
  /\ pc[h] = "pulse_on_wait"
  /\ coils' = DeviceCoils("write_single_coil", request[h].relay_id, TRUE, Executed(exec, reply))
  /\ IF Received(exec, reply)
     THEN /\ pc' = [pc EXCEPT ![h] = "pulse_sleep"]
          /\ serial_lock' = NoThread
          /\ UNCHANGED <<attempt, response, toggles_ok, only_toggles, fault_retried>>
     ELSE Raise(h, Fault(exec, reply))
  /\ UNCHANGED <<lifeVars, rtuVars, daemonVars, cacheVars, request, current_state, relay_list, inputs,
                 sent, waitq>>

pulse_on_done(h, exec, reply) ==
  /\ pc[h] = "pulse_on_wait"
  /\ coils' = DeviceCoils("write_single_coil", request[h].relay_id, TRUE, Executed(exec, reply))
  /\ IF Received(exec, reply)
     THEN /\ pc' = [pc EXCEPT ![h] = "pulse_sleep"]
          /\ UNCHANGED <<attempt, response, serial_lock, toggles_ok, only_toggles, fault_retried>>
     ELSE Raise(h, Fault(exec, reply))
  /\ UNCHANGED <<lifeVars, rtuVars, daemonVars, cacheVars, request, current_state, relay_list, inputs,
                 sent, waitq>>

\* time.sleep(duration) has elapsed: turn_off_relay
pulse_off(h) ==
  /\ pc[h] = "pulse_sleep"
  /\ HandlerSend(h, "pulse_off_wait", TRUE)
  /\ UNCHANGED <<lifeVars, rtuVars, daemonVars, cacheVars, request, current_state, relay_list, deviceVars>>

pulse_off_done(h, exec, reply) ==
  /\ pc[h] = "pulse_off_wait"
  /\ coils' = DeviceCoils("write_single_coil", request[h].relay_id, FALSE, Executed(exec, reply))
  /\ IF Received(exec, reply)
     THEN Return(h, Success(TRUE)) /\ UNCHANGED <<toggles_ok, only_toggles>>
     ELSE Raise(h, Fault(exec, reply))
  /\ UNCHANGED <<lifeVars, rtuVars, daemonVars, cacheVars, request, current_state, relay_list, inputs,
                 sent, waitq>>

\* ------------------------------------------------------ _handle_client_safe
\* data = client_socket.recv(1024); request = json.loads(data.decode()); the call
\* of self.serial_lock.acquire(timeout=3.0) returns at once when the lock is
\* free and blocks, behind the handlers already waiting, when it is held.
handle_client_recv(h, r) ==
  /\ pc[h] = "recv"
  /\ request' = [request EXCEPT ![h] = r]
  /\ IF serial_lock = NoThread
     THEN /\ serial_lock' = h
          /\ pc' = [pc EXCEPT ![h] = "process"]
          /\ UNCHANGED waitq
     ELSE /\ waitq' = Append(waitq, h)
          /\ pc' = [pc EXCEPT ![h] = "acquire"]
          /\ UNCHANGED serial_lock
  /\ UNCHANGED <<lifeVars, rtuVars, daemonVars, cacheVars, attempt, response, current_state, relay_list,
                 deviceVars, sent, toggles_ok, only_toggles, fault_retried>>

\* recv returns no data, or the 10 s socket timeout expires: the connection closes.
handle_client_eof(h) ==
  /\ pc[h] = "recv"
  /\ pc' = [pc EXCEPT ![h] = "closed"]
  /\ UNCHANGED <<lifeVars, rtuVars, daemonVars, cacheVars, localVars, deviceVars, obsVars, serial_lock>>

\* Mutant of HandlerMayAcquire: a waiting handler is let in while the lock is held.
HandlerAcquiresUnchecked == TRUE

\* The condition under which a blocked acquire(timeout=3.0) returns True.
HandlerMayAcquire == serial_lock = NoThread

\* acquired = self.serial_lock.acquire(timeout=3.0), acquired after waiting
handle_client_acquire(h) ==
  /\ pc[h] = "acquire"
  /\ HandlerMayAcquire
  /\ serial_lock' = h
  /\ waitq' = Remove(waitq, h)
  /\ pc' = [pc EXCEPT ![h] = "process"]
  /\ UNCHANGED <<lifeVars, rtuVars, daemonVars, cacheVars, localVars, deviceVars, sent, toggles_ok,
                 only_toggles, fault_retried>>

\* Mutant of handle_client_busy: the busy response is built, but the request is
\* processed all the same (the else: before the locked region is missing).
handle_client_busy_processed(h) ==
  /\ pc[h] = "acquire"
  /\ serial_lock # NoThread
  /\ response' = [response EXCEPT ![h] = Busy]
  /\ waitq' = Remove(waitq, h)
  /\ pc' = [pc EXCEPT ![h] = "process"]
  /\ UNCHANGED <<lifeVars, rtuVars, daemonVars, cacheVars, request, attempt, current_state, relay_list,
                 deviceVars, sent, toggles_ok, only_toggles, fault_retried, serial_lock>>

\* acquired = self.serial_lock.acquire(timeout=3.0), not acquired within 3 s
handle_client_busy(h) ==
  /\ pc[h] = "acquire"
  /\ serial_lock # NoThread
  /\ response' = [response EXCEPT ![h] = Busy]
  /\ waitq' = Remove(waitq, h)
  /\ pc' = [pc EXCEPT ![h] = "send"]
  /\ UNCHANGED <<lifeVars, rtuVars, daemonVars, cacheVars, request, attempt, current_state, relay_list,
                 deviceVars, sent, toggles_ok, only_toggles, fault_retried, serial_lock>>

\* client_socket.send(json.dumps(response).encode()), then while self.running
handle_client_send(h) ==
  /\ pc[h] = "send"
  /\ request' = [request EXCEPT ![h] = NoRequest]
  /\ response' = [response EXCEPT ![h] = NoResponse]
  /\ attempt' = [attempt EXCEPT ![h] = 0]
  /\ sent' = [sent EXCEPT ![h] = FALSE]
  /\ pc' = [pc EXCEPT ![h] = IF running THEN "recv" ELSE "closed"]
  /\ UNCHANGED <<lifeVars, rtuVars, daemonVars, cacheVars, current_state, relay_list, deviceVars, waitq,
                 toggles_ok, only_toggles, fault_retried, serial_lock>>

\* ------------------------------------------------ _background_status_update
\* The finally clause of the poller and the sleep that follows.
PollerRelease ==
  /\ serial_lock' = NoThread
  /\ relay_list' = AllFalse
  /\ pc' = [pc EXCEPT ![Poller] = "poll_sleep"]

\* while self.running: left when running is false
poll_exit ==
  /\ pc[Poller] = "poll_sleep"
  /\ ~running
  /\ pc' = [pc EXCEPT ![Poller] = "poll_done"]
  /\ UNCHANGED <<lifeVars, rtuVars, daemonVars, cacheVars, localVars, deviceVars, obsVars, serial_lock>>

\* Mutant of PollerMayAcquire: the poller finds the lock taken at every try.
PollerNeverAcquires == FALSE

\* Mutant of PollerMayAcquire: the poller enters without looking at the lock.
PollerAcquiresUnchecked == TRUE

\* The condition of self.serial_lock.acquire(blocking=False)
PollerMayAcquire == serial_lock = NoThread

\* if self.serial_lock.acquire(blocking=False):
poll_acquire ==
  /\ pc[Poller] = "poll_sleep"
  /\ running
  /\ PollerMayAcquire
  /\ serial_lock' = Poller
  /\ pc' = [pc EXCEPT ![Poller] = "poll_relays"]
  /\ UNCHANGED <<lifeVars, rtuVars, daemonVars, cacheVars, localVars, deviceVars, obsVars>>

\* The lock is taken: this update is skipped; time.sleep(2.0)
poll_skip ==
  /\ pc[Poller] = "poll_sleep"
  /\ running
  /\ ~PollerMayAcquire
  /\ UNCHANGED vars

\* A controller call of the poller up to _send_frame.
PollerSend(next) ==
  IF is_connected
  THEN /\ pc' = [pc EXCEPT ![Poller] = next]
       /\ UNCHANGED <<serial_lock, relay_list>>
  ELSE PollerRelease

\* relay_states = self.controller.get_all_relay_states(self.count)
poll_relays ==
  /\ pc[Poller] = "poll_relays"
  /\ PollerSend("poll_relays_wait")
  /\ UNCHANGED <<lifeVars, rtuVars, daemonVars, cacheVars, request, attempt, response, current_state,
                 deviceVars, obsVars>>

poll_relays_done(exec, reply) ==
  /\ pc[Poller] = "poll_relays_wait"
  /\ IF Received(exec, reply)
     THEN /\ relay_list' = coils
          /\ pc' = [pc EXCEPT ![Poller] = "poll_inputs"]
          /\ UNCHANGED serial_lock
     ELSE PollerRelease
  /\ UNCHANGED <<lifeVars, rtuVars, daemonVars, cacheVars, request, attempt, response, current_state,
                 deviceVars, obsVars>>

\* input_states = self.controller.get_all_input_states(self.count)
poll_inputs ==
  /\ pc[Poller] = "poll_inputs"
  /\ PollerSend("poll_inputs_wait")
  /\ UNCHANGED <<lifeVars, rtuVars, daemonVars, cacheVars, request, attempt, response, current_state,
                 deviceVars, obsVars>>

\* with self.status_cache_lock: the three cache fields are replaced together.
UpdateCache(relays, ins) ==
  /\ last_relay_states' = relays
  /\ last_input_states' = ins
  /\ last_status_time' = IF last_status_time < MaxPolls THEN last_status_time + 1
                         ELSE last_status_time

\* Mutant of poll_inputs_done: the cache is written whether or not the input
\* read succeeded.
poll_inputs_done_unchecked(exec, reply) ==
  /\ pc[Poller] = "poll_inputs_wait"
  /\ UpdateCache(relay_list, inputs)
  /\ PollerRelease
  /\ UNCHANGED <<lifeVars, rtuVars, daemonVars, request, attempt, response, current_state, deviceVars, obsVars>>

poll_inputs_done(exec, reply) ==
  /\ pc[Poller] = "poll_inputs_wait"
  /\ IF Received(exec, reply)
     THEN UpdateCache(relay_list, inputs)
     ELSE UNCHANGED cacheVars
  /\ PollerRelease
  /\ UNCHANGED <<lifeVars, rtuVars, daemonVars, request, attempt, response, current_state, deviceVars, obsVars>>

Next ==
  \/ start
  \/ stop_running
  \/ stop_disconnect
  \/ stop_close
  \/ poll_exit
  \/ poll_acquire
  \/ poll_skip
  \/ poll_relays
  \/ \E exec \in BOOLEAN, reply \in Replies : poll_relays_done(exec, reply)
  \/ poll_inputs
  \/ \E exec \in BOOLEAN, reply \in Replies : poll_inputs_done(exec, reply)
  \/ \E h \in Handlers : accept(h)
  \/ \E h \in Handlers, r \in Requests : handle_client_recv(h, r)
  \/ \E h \in Handlers : handle_client_eof(h)
  \/ \E h \in Handlers : handle_client_acquire(h)
  \/ \E h \in Handlers : handle_client_busy(h)
  \/ \E h \in Handlers : handle_client_send(h)
  \/ \E h \in Handlers : process_get_status(h)
  \/ \E h \in Handlers : process_unknown(h)
  \/ \E h \in Handlers : process_set_relay(h)
  \/ \E h \in Handlers, exec \in BOOLEAN, reply \in Replies : set_relay_done(h, exec, reply)
  \/ \E h \in Handlers : process_toggle(h)
  \/ \E h \in Handlers, exec \in BOOLEAN, reply \in Replies : toggle_read_done(h, exec, reply)
  \/ \E h \in Handlers : toggle_write(h)
  \/ \E h \in Handlers, exec \in BOOLEAN, reply \in Replies : toggle_write_done(h, exec, reply)
  \/ \E h \in Handlers : process_pulse(h)
  \/ \E h \in Handlers, exec \in BOOLEAN, reply \in Replies : pulse_on_done(h, exec, reply)
  \/ \E h \in Handlers : pulse_off(h)
  \/ \E h \in Handlers, exec \in BOOLEAN, reply \in Replies : pulse_off_done(h, exec, reply)

Spec == Init /\ [][Next]_vars

\* ========================================================================
\* SpecPoll: the daemon is started, stays Running and the device answers every frame;
\* every thread that can take a step eventually takes one. Requests arrive
\* whenever the clients choose to send them.
\* ========================================================================
PollerStep ==
  \/ poll_acquire
  \/ poll_relays
  \/ poll_relays_done(TRUE, "ok")
  \/ poll_inputs
  \/ poll_inputs_done(TRUE, "ok")

HandlerStep(h) ==
  \/ handle_client_acquire(h)
  \/ handle_client_busy(h)
  \/ handle_client_send(h)
  \/ process_get_status(h)
  \/ process_unknown(h)
  \/ process_set_relay(h)
  \/ set_relay_done(h, TRUE, "ok")
  \/ process_toggle(h)
  \/ toggle_read_done(h, TRUE, "ok")
  \/ toggle_write(h)
  \/ toggle_write_done(h, TRUE, "ok")
  \/ process_pulse(h)
  \/ pulse_on_done(h, TRUE, "ok")
  \/ pulse_off(h)
  \/ pulse_off_done(h, TRUE, "ok")

NextPoll ==
  \/ start
  \/ poll_skip
  \/ PollerStep
  \/ \E h \in Handlers : accept(h)
  \/ \E h \in Handlers, r \in Requests : handle_client_recv(h, r)
  \/ \E h \in Handlers : HandlerStep(h)

SpecPoll ==
  /\ Init
  /\ [][NextPoll]_vars
  /\ WF_vars(start)
  /\ WF_vars(PollerStep)
  /\ \A h \in Handlers : WF_vars(HandlerStep(h))

\* ========================================================================
\* SpecRtu: byte sequences through ModbusCRC16.calculate, _build_frame and
\* ModbusCRC16.verify (src/src/modbus_rtu.py).
\* ========================================================================
CRC_HI_TABLE ==
  <<  0, 193, 129,  64,   1, 192, 128,  65,   1, 192, 128,  65,   0, 193, 129,  64,
      1, 192, 128,  65,   0, 193, 129,  64,   0, 193, 129,  64,   1, 192, 128,  65,
      1, 192, 128,  65,   0, 193, 129,  64,   0, 193, 129,  64,   1, 192, 128,  65,
      0, 193, 129,  64,   1, 192, 128,  65,   1, 192, 128,  65,   0, 193, 129,  64,
      1, 192, 128,  65,   0, 193, 129,  64,   0, 193, 129,  64,   1, 192, 128,  65,
      0, 193, 129,  64,   1, 192, 128,  65,   1, 192, 128,  65,   0, 193, 129,  64,
      0, 193, 129,  64,   1, 192, 128,  65,   1, 192, 128,  65,   0, 193, 129,  64,
      1, 192, 128,  65,   0, 193, 129,  64,   0, 193, 129,  64,   1, 192, 128,  65,
      1, 192, 128,  65,   0, 193, 129,  64,   0, 193, 129,  64,   1, 192, 128,  65,
      0, 193, 129,  64,   1, 192, 128,  65,   1, 192, 128,  65,   0, 193, 129,  64,
      0, 193, 129,  64,   1, 192, 128,  65,   1, 192, 128,  65,   0, 193, 129,  64,
      1, 192, 128,  65,   0, 193, 129,  64,   0, 193, 129,  64,   1, 192, 128,  65,
      0, 193, 129,  64,   1, 192, 128,  65,   1, 192, 128,  65,   0, 193, 129,  64,
      1, 192, 128,  65,   0, 193, 129,  64,   0, 193, 129,  64,   1, 192, 128,  65,
      1, 192, 128,  65,   0, 193, 129,  64,   0, 193, 129,  64,   1, 192, 128,  65,
      0, 193, 129,  64,   1, 192, 128,  65,   1, 192, 128,  65,   0, 193, 129,  64>>

CRC_LO_TABLE ==
  <<  0, 192, 193,   1, 195,   3,   2, 194, 198,   6,   7, 199,   5, 197, 196,   4,
    204,  12,  13, 205,  15, 207, 206,  14,  10, 202, 203,  11, 201,   9,   8, 200,
    216,  24,  25, 217,  27, 219, 218,  26,  30, 222, 223,  31, 221,  29,  28, 220,
     20, 212, 213,  21, 215,  23,  22, 214, 210,  18,  19, 211,  17, 209, 208,  16,
    240,  48,  49, 241,  51, 243, 242,  50,  54, 246, 247,  55, 245,  53,  52, 244,
     60, 252, 253,  61, 255,  63,  62, 254, 250,  58,  59, 251,  57, 249, 248,  56,
     40, 232, 233,  41, 235,  43,  42, 234, 238,  46,  47, 239,  45, 237, 236,  44,
    228,  36,  37, 229,  39, 231, 230,  38,  34, 226, 227,  35, 225,  33,  32, 224,
    160,  96,  97, 161,  99, 163, 162,  98, 102, 166, 167, 103, 165, 101, 100, 164,
    108, 172, 173, 109, 175, 111, 110, 174, 170, 106, 107, 171, 105, 169, 168, 104,
    120, 184, 185, 121, 187, 123, 122, 186, 190, 126, 127, 191, 125, 189, 188, 124,
    180, 116, 117, 181, 119, 183, 182, 118, 114, 178, 179, 115, 177, 113, 112, 176,
     80, 144, 145,  81, 147,  83,  82, 146, 150,  86,  87, 151,  85, 149, 148,  84,
    156,  92,  93, 157,  95, 159, 158,  94,  90, 154, 155,  91, 153,  89,  88, 152,
    136,  72,  73, 137,  75, 139, 138,  74,  78, 142, 143,  79, 141,  77,  76, 140,
     68, 132, 133,  69, 135,  71,  70, 134, 130,  66,  67, 131,  65, 129, 128,  64>>

\* a ^ b on the low n bits.
RECURSIVE XorBits(_, _, _)
XorBits(a, b, n) ==
  IF n = 0 THEN 0
  ELSE (((a % 2) + (b % 2)) % 2) + 2 * XorBits(a \div 2, b \div 2, n - 1)

Xor(a, b) == XorBits(a, b, 8)

\* The loop of calculate: for byte in data
RECURSIVE CrcLoop(_, _, _)
CrcLoop(data, crc_hi, crc_lo) ==
  IF data = <<>> THEN <<crc_hi, crc_lo>>
  ELSE LET index == Xor(crc_hi, Head(data))
       IN  CrcLoop(Tail(data), Xor(crc_lo, CRC_HI_TABLE[index + 1]), CRC_LO_TABLE[index + 1])

\* Mutant of calculate: the two bytes are returned in the other order.
calculate_swapped(data) ==
  LET crc == CrcLoop(data, 255, 255) IN <<crc[2], crc[1]>>

\* Mutant of calculate: the accumulators start at 0.
calculate_zero_seed(data) == CrcLoop(data, 0, 0)

\* ModbusCRC16.calculate: crc_hi = 0xFF; crc_lo = 0xFF; ...; return crc_hi, crc_lo
calculate(data) == CrcLoop(data, 255, 255)

\* Mutant of verify: an input too short to hold a checksum is let through.
verify_short_passes(data) ==
  IF Len(data) < 2 THEN TRUE
  ELSE LET message == SubSeq(data, 1, Len(data) - 2)
           received_crc_lo == data[Len(data) - 1]
           received_crc_hi == data[Len(data)]
           calculated == calculate(message)
       IN  received_crc_lo = calculated[1] /\ received_crc_hi = calculated[2]

\* Mutant of verify: only the first checksum byte is compared.
verify_first_only(data) ==
  IF Len(data) < 2 THEN FALSE
  ELSE LET message == SubSeq(data, 1, Len(data) - 2)
           received_crc_lo == data[Len(data) - 1]
           calculated == calculate(message)
       IN  received_crc_lo = calculated[1]

\* ModbusCRC16.verify
verify(data) ==
  IF Len(data) < 2 THEN FALSE
  ELSE LET message == SubSeq(data, 1, Len(data) - 2)
           received_crc_lo == data[Len(data) - 1]
           received_crc_hi == data[Len(data)]
           calculated == calculate(message)
       IN  received_crc_lo = calculated[1] /\ received_crc_hi = calculated[2]

\* ModbusRTUClient._build_frame
build_frame(slave_id, function_code, data) ==
  LET frame == <<slave_id, function_code>> \o data
      crc == calculate(frame)
  IN  frame \o <<crc[1], crc[2]>>

\* Mutant of parse_response: the checksum is checked before the length.
parse_response_crc_first(response_data) ==
  IF ~verify(response_data) THEN Parsed("crc", 0, 0, <<>>)
  ELSE IF Len(response_data) < 4 THEN Parsed("too_short", 0, 0, <<>>)
  ELSE Parsed("none", response_data[1], response_data[2],
              SubSeq(response_data, 3, Len(response_data) - 2))

\* Mutant of parse_response: the checksum bytes stay in the payload.
parse_response_keeps_crc(response_data) ==
  IF Len(response_data) < 4 THEN Parsed("too_short", 0, 0, <<>>)
  ELSE IF ~verify(response_data) THEN Parsed("crc", 0, 0, <<>>)
  ELSE Parsed("none", response_data[1], response_data[2],
              SubSeq(response_data, 3, Len(response_data)))

\* ModbusRTUClient._parse_response
parse_response(response_data) ==
  IF Len(response_data) < 4 THEN Parsed("too_short", 0, 0, <<>>)
  ELSE IF ~verify(response_data) THEN Parsed("crc", 0, 0, <<>>)
  ELSE Parsed("none", response_data[1], response_data[2],
              SubSeq(response_data, 3, Len(response_data) - 2))

\* The request of the protocol manual's example: read 37 coils from address 19.
Fixture == <<1, 1, 0, 19, 0, 37>>

\* The byte sequences tried: all sequences of sample bytes up to MaxBytes, and the fixture.
ByteSamples == {0, 1, 5, 128, 255}
RECURSIVE SeqsUpTo(_)
SeqsUpTo(n) ==
  IF n = 0 THEN {<<>>}
  ELSE LET shorter == SeqsUpTo(n - 1)
       IN  shorter \cup {Append(q, b) : q \in {x \in shorter : Len(x) = n - 1}, b \in ByteSamples}
ByteSeqs == SeqsUpTo(MaxBytes) \cup {Fixture}

InitRtu ==
  /\ InitCoreVars /\ inputs = AllFalse
  /\ InitLifeVars
  /\ InitExecVars /\ InitRecvVars /\ InitPulseVars /\ InitToggleVars /\ InitStatusVars
  /\ rtu_pc = "idle"
  /\ rtu_data \in ByteSeqs
  /\ rtu_crc = <<>>
  /\ rtu_frame = <<>>
  /\ rtu_rx = <<>>
  /\ rtu_valid = FALSE
  /\ rtu_parsed = NoParse

\* crc_lo, crc_hi = ModbusCRC16.calculate(data)
calculate_step ==
  /\ rtu_pc = "idle"
  /\ rtu_crc' = calculate(rtu_data)
  /\ rtu_pc' = "calculated"
  /\ UNCHANGED <<coreVars, lifeVars, statusVars, toggleVars, execVars, recvVars, pulseVars, rtu_data, rtu_frame, rtu_rx, rtu_valid, rtu_parsed>>

\* frame = self._build_frame(slave_id, function_code, data), the bytes taken as
\* slave address, function code and payload.
build_frame_step ==
  /\ rtu_pc = "calculated"
  /\ Len(rtu_data) >= 2
  /\ rtu_frame' = build_frame(rtu_data[1], rtu_data[2], SubSeq(rtu_data, 3, Len(rtu_data)))
  /\ rtu_pc' = "built"
  /\ UNCHANGED <<coreVars, lifeVars, statusVars, toggleVars, execVars, recvVars, pulseVars, rtu_data, rtu_crc, rtu_rx, rtu_valid, rtu_parsed>>

\* The bytes arrive followed by two trailing bytes lo, hi: the checksum bytes
\* or any others.
receive_step(lo, hi) ==
  /\ rtu_pc \in {"calculated", "built"}
  /\ rtu_rx' = rtu_data \o <<lo, hi>>
  /\ rtu_pc' = "received"
  /\ UNCHANGED <<coreVars, lifeVars, statusVars, toggleVars, execVars, recvVars, pulseVars, rtu_data, rtu_crc, rtu_frame, rtu_valid, rtu_parsed>>

\* The bytes arrive as they are, nothing appended.
receive_bare_step ==
  /\ rtu_pc \in {"calculated", "built"}
  /\ rtu_rx' = rtu_data
  /\ rtu_pc' = "received_bare"
  /\ UNCHANGED <<coreVars, lifeVars, statusVars, toggleVars, execVars, recvVars, pulseVars, rtu_data, rtu_crc, rtu_frame, rtu_valid, rtu_parsed>>

\* ModbusCRC16.verify(response_data)
verify_step ==
  /\ rtu_pc \in {"received", "received_bare"}
  /\ rtu_valid' = verify(rtu_rx)
  /\ rtu_pc' = IF rtu_pc = "received" THEN "verified" ELSE "verified_bare"
  /\ UNCHANGED <<coreVars, lifeVars, statusVars, toggleVars, execVars, recvVars, pulseVars, rtu_data, rtu_crc, rtu_frame, rtu_rx, rtu_parsed>>

\* response = self._parse_response(response_data)
parse_response_step ==
  /\ rtu_pc \in {"received", "received_bare"}
  /\ rtu_parsed' = parse_response(rtu_rx)
  /\ rtu_pc' = "parsed"
  /\ UNCHANGED <<coreVars, lifeVars, statusVars, toggleVars, execVars, recvVars, pulseVars, rtu_data, rtu_crc, rtu_frame, rtu_rx, rtu_valid>>

NextRtu ==
  \/ calculate_step
  \/ build_frame_step
  \/ \E lo, hi \in ByteSamples \cup {rtu_crc[i] : i \in DOMAIN rtu_crc} : receive_step(lo, hi)
  \/ receive_bare_step
  \/ verify_step
  \/ parse_response_step

SpecRtu == InitRtu /\ [][NextRtu]_vars

\* ========================================================================
\* SpecExec: the operations of ModbusRTUClient (src/src/modbus_rtu.py) called
\* against a device that answers with any frame.
\* ========================================================================
\* struct.pack('>HH', a, b)
PackHH(a, b) == <<a \div 256, a % 256, b \div 256, b % 256>>

\* struct.unpack('>H', b)[0]
UnpackH(b) == b[1] * 256 + b[2]

\* data[lo:hi] of Python, lo and hi counted from 0 and clamped to the length.
Slice(data, lo, hi) ==
  LET h == IF hi > Len(data) THEN Len(data) ELSE hi
  IN  IF lo >= h THEN <<>> ELSE SubSeq(data, lo + 1, h)

BitReads == {"read_coils", "read_discrete_inputs"}
RegisterReads == {"read_holding_registers", "read_input_registers"}

\* The function code each operation passes to execute_request.
FunctionCode(fn) ==
  CASE fn = "read_coils" -> FUNCTION_READ_COILS
    [] fn = "read_discrete_inputs" -> FUNCTION_READ_DISCRETE_INPUTS
    [] fn = "read_holding_registers" -> FUNCTION_READ_HOLDING_REGISTERS
    [] fn = "read_input_registers" -> FUNCTION_READ_INPUT_REGISTERS
    [] fn = "write_single_coil" -> FUNCTION_WRITE_SINGLE_COIL

\* coil_value = 0xFF00 if value else 0x0000
CoilValue(value) == IF value THEN 65280 ELSE 0

\* The data each operation passes to execute_request.
RequestData(req) ==
  IF req.fn = "write_single_coil"
  THEN PackHH(req.address, CoilValue(req.value))
  ELSE PackHH(req.address, req.count)

\* USBRelayController.set_relay_state on a connected controller.
set_relay_state(relay_id, state) ==
  Call("write_single_coil", slave_id_default, relay_start_address + relay_id - 1, 0, state)

\* self.is_error = (function_code & 0x80) != 0
is_error(function_code) == (function_code \div 128) % 2 = 1

\* execute_request after _receive_frame: _parse_response, then the address and
\* the error checks. The result is the error raised, or "none".
execute_request(slave_id, parsed) ==
  IF parsed.error # "none" THEN parsed.error
  ELSE IF parsed.slave_id # slave_id THEN "address_mismatch"
  ELSE IF is_error(parsed.function_code) THEN "device_error"
  ELSE "none"

\* (byte >> bit_index) & 1 == 1
Bit(byte, bit_index) == (byte \div (2 ^ bit_index)) % 2 = 1

\* Mutant of decode_bits: the bits of a byte are taken most significant first.
decode_bits_msb_first(count, data) ==
  IF data = <<>> THEN Outcome("raised", "index_error", <<>>)
  ELSE LET byte_count == data[1]
           coil_data == Slice(data, 1, 1 + byte_count)
       IN  Outcome("returned", "none",
             [i \in 1..count |->
                LET byte_index == (i - 1) \div 8
                    bit_index == (i - 1) % 8
                IN  IF byte_index < Len(coil_data)
                    THEN Bit(coil_data[byte_index + 1], 7 - bit_index)
                    ELSE FALSE])

\* read_coils / read_discrete_inputs after execute_request returned.
decode_bits(count, data) ==
  IF data = <<>> THEN Outcome("raised", "index_error", <<>>)
  ELSE LET byte_count == data[1]
           coil_data == Slice(data, 1, 1 + byte_count)
       IN  Outcome("returned", "none",
             [i \in 1..count |->
                LET byte_index == (i - 1) \div 8
                    bit_index == (i - 1) % 8
                IN  IF byte_index < Len(coil_data)
                    THEN Bit(coil_data[byte_index + 1], bit_index)
                    ELSE FALSE])

\* read_holding_registers / read_input_registers after execute_request returned.
decode_registers(data) ==
  IF data = <<>> THEN Outcome("raised", "index_error", <<>>)
  ELSE LET byte_count == data[1]
           register_data == Slice(data, 1, 1 + byte_count)
       IN  Outcome("returned", "none",
             [k \in 1..(Len(register_data) \div 2) |->
                UnpackH(Slice(register_data, 2 * (k - 1), 2 * (k - 1) + 2))])

\* Mutant of decode_write: the echoed value is compared with the boolean.
decode_write_bool(address, value, data) ==
  IF Len(data) # 4 THEN Outcome("raised", "struct_error", <<>>)
  ELSE LET resp_address == UnpackH(Slice(data, 0, 2))
           resp_value == UnpackH(Slice(data, 2, 4))
       IN  Outcome("returned", "none", resp_address = address /\ resp_value = (IF value THEN 1 ELSE 0))

\* write_single_coil after execute_request returned.
decode_write(address, value, data) ==
  IF Len(data) # 4 THEN Outcome("raised", "struct_error", <<>>)
  ELSE LET resp_address == UnpackH(Slice(data, 0, 2))
           resp_value == UnpackH(Slice(data, 2, 4))
       IN  Outcome("returned", "none", resp_address = address /\ resp_value = CoilValue(value))

\* The operation from the receipt of the response bytes to its return.
Complete(req, response_data) ==
  LET parsed == parse_response(response_data)
      error == execute_request(req.slave_id, parsed)
  IN  IF error # "none" THEN Outcome("raised", error, <<>>)
      ELSE IF req.fn \in BitReads THEN decode_bits(req.count, parsed.data)
      ELSE IF req.fn \in RegisterReads THEN decode_registers(parsed.data)
      ELSE decode_write(req.address, req.value, parsed.data)

\* The calls tried.
Counts == (1..MaxCount) \cup {9}
Calls ==
  {Call(fn, slave_id_default, 0, n, FALSE) : fn \in BitReads, n \in Counts}
    \cup {Call(fn, slave_id_default, 0, n, FALSE) : fn \in RegisterReads, n \in 1..MaxCount}
    \cup {set_relay_state(r, v) : r \in {1, 2}, v \in BOOLEAN}
    \cup {Call("write_single_coil", slave_id_default, 258, 0, v) : v \in BOOLEAN}

\* The payloads a device is tried with in its answer to a call.
BitPayloads ==
  {<<1, 5>>, <<1, 250>>, <<2, 5, 1>>, <<2, 255, 254>>, <<1, 5, 1>>,
   <<>>, <<1>>, <<0, 5>>, <<2, 5>>}
RegisterPayloads ==
  {<<2, 0, 1>>, <<2, 1, 2>>, <<4, 0, 1, 1, 0>>, <<6, 0, 1, 0, 2, 255, 255>>,
   <<>>, <<0>>, <<2>>, <<2, 7>>, <<3, 0, 1, 7>>, <<2, 0, 1, 0, 2>>}
WritePayloads(req) ==
  LET echo == RequestData(req)
  IN  {echo, PackHH(req.address, CoilValue(~req.value)), PackHH(1 - (req.address % 2), CoilValue(req.value)),
       SubSeq(echo, 1, 3), echo \o <<0>>, <<>>}
Payloads(req) ==
  IF req.fn \in BitReads THEN BitPayloads
  ELSE IF req.fn \in RegisterReads THEN RegisterPayloads
  ELSE WritePayloads(req)

\* The addresses and function codes a device is tried with in its answer.
AnswerUnits(req) == {req.slave_id, req.slave_id + 1}
AnswerCodes(req) ==
  {FunctionCode(req.fn), FunctionCode(req.fn) + 1, FunctionCode(req.fn) + 128}

\* The operation is called: execute_request builds the request frame and sends it.
Invoke(req) ==
  /\ rtu_req' = req
  /\ rtu_frame' = build_frame(req.slave_id, FunctionCode(req.fn), RequestData(req))
  /\ rtu_rx' = <<>>
  /\ rtu_parsed' = NoParse
  /\ rtu_result' = NoOutcome
  /\ rtu_exec' = FALSE
  /\ rtu_pc' = "requested"

call(req) ==
  /\ rtu_pc = "idle"
  /\ rtu_done = <<>>
  /\ Invoke(req)
  /\ UNCHANGED <<coreVars, lifeVars, statusVars, toggleVars, recvVars, pulseVars, rtu_data, rtu_crc, rtu_valid, rtu_done, dev_coils>>

\* The same write is made again after it has returned or raised.
call_again ==
  /\ rtu_pc = "done"
  /\ rtu_req.fn = "write_single_coil"
  /\ Len(rtu_done) < MaxCalls - 1
  /\ Invoke(rtu_req)
  /\ rtu_done' = Append(rtu_done, [req |-> rtu_req, result |-> rtu_result, exec |-> rtu_exec,
                                    echoed |-> rtu_rx = rtu_frame, coils |-> dev_coils])
  /\ UNCHANGED <<coreVars, lifeVars, statusVars, toggleVars, recvVars, pulseVars, rtu_data, rtu_crc, rtu_valid, dev_coils>>

\* The device answers with the frame of unit, code and payload, its checksum
\* intact or not; exec: it has executed the write it was sent.
device_reply(unit, code, payload, intact, exec) ==
  /\ rtu_pc = "requested"
  /\ exec => rtu_req.fn = "write_single_coil"
  /\ rtu_rx' = LET frame == build_frame(unit, code, payload)
               IN  IF intact THEN frame
                   ELSE [frame EXCEPT ![Len(frame)] = (@ + 1) % 256]
  /\ rtu_exec' = exec
  /\ dev_coils' = IF exec THEN [dev_coils EXCEPT ![rtu_req.address] = rtu_req.value] ELSE dev_coils
  /\ rtu_pc' = "answered"
  /\ UNCHANGED <<coreVars, lifeVars, statusVars, toggleVars, recvVars, pulseVars, rtu_data, rtu_crc, rtu_frame, rtu_valid,
                 rtu_parsed, rtu_req, rtu_result, rtu_done>>

\* No byte arrives within the timeout: _receive_frame raises.
device_silent ==
  /\ rtu_pc = "requested"
  /\ rtu_result' = Outcome("raised", "timeout", <<>>)
  /\ rtu_pc' = "done"
  /\ UNCHANGED <<coreVars, lifeVars, statusVars, toggleVars, recvVars, pulseVars, rtu_data, rtu_crc, rtu_frame, rtu_rx,
                 rtu_valid, rtu_parsed, rtu_req, rtu_done, rtu_exec, dev_coils>>

\* The response bytes are received and the operation runs to its end.
complete ==
  /\ rtu_pc = "answered"
  /\ rtu_parsed' = parse_response(rtu_rx)
  /\ rtu_result' = Complete(rtu_req, rtu_rx)
  /\ rtu_pc' = "done"
  /\ UNCHANGED <<coreVars, lifeVars, statusVars, toggleVars, recvVars, pulseVars, rtu_data, rtu_crc, rtu_frame, rtu_rx,
                 rtu_valid, rtu_req, rtu_done, rtu_exec, dev_coils>>

NextExec ==
  \/ \E req \in Calls : call(req)
  \/ call_again
  \/ /\ rtu_pc = "requested"
     /\ \E unit \in AnswerUnits(rtu_req), code \in AnswerCodes(rtu_req), payload \in Payloads(rtu_req),
           intact \in BOOLEAN, exec \in BOOLEAN :
           device_reply(unit, code, payload, intact, exec)
  \/ device_silent
  \/ complete

InitExec == Init /\ inputs = AllFalse

SpecExec == InitExec /\ [][NextExec]_vars

\* ========================================================================
\* SpecRecv: one call of ModbusRTUClient._receive_frame while bytes arrive.
\* Time advances by what an iteration of a loop takes: dt is 0 or 1 tick.
\* ========================================================================
Running_rx == {"wait", "read"}

\* Time passes before the call.
elapse ==
  /\ rx_pc = "idle"
  /\ rx_now < MaxTime - TimeoutTicks - IdleTicks - 2
  /\ rx_now' = rx_now + 1
  /\ UNCHANGED <<coreVars, lifeVars, statusVars, toggleVars, rtu_pc, rtu_data, rtu_crc, rtu_frame, rtu_rx, rtu_valid,
                 rtu_parsed, execVars, pulseVars, rx_pc, rx_start, rx_last, rx_waiting>>

\* start_time = time.time()
receive_frame_enter ==
  /\ rx_pc = "idle"
  /\ rx_start' = rx_now
  /\ rx_pc' = "wait"
  /\ UNCHANGED <<coreVars, lifeVars, statusVars, toggleVars, rtu_pc, rtu_data, rtu_crc, rtu_frame, rtu_rx, rtu_valid,
                 rtu_parsed, execVars, pulseVars, rx_now, rx_last, rx_waiting>>

\* The device puts a byte into the input buffer.
byte_arrives ==
  /\ rx_pc \in Running_rx
  /\ ~rx_waiting
  /\ rx_waiting' = TRUE
  /\ UNCHANGED <<coreVars, lifeVars, statusVars, toggleVars, rtu_pc, rtu_data, rtu_crc, rtu_frame, rtu_rx, rtu_valid,
                 rtu_parsed, execVars, pulseVars, rx_pc, rx_now, rx_start, rx_last>>

\* time.sleep(0.001), or the time a read takes.
Pass(dt) == rx_now' = IF rx_now < MaxTime THEN rx_now + dt ELSE rx_now

\* One test of `while self.serial_port.in_waiting == 0` and its body.
wait_step(dt) ==
  /\ rx_pc = "wait"
  /\ IF rx_waiting
     THEN /\ rx_last' = rx_now
          /\ rx_pc' = "read"
          /\ UNCHANGED rx_now
     ELSE IF rx_now - rx_start > TimeoutTicks
     THEN rx_pc' = "raised" /\ UNCHANGED <<rx_now, rx_last>>
     ELSE Pass(dt) /\ UNCHANGED <<rx_pc, rx_last>>
  /\ UNCHANGED <<coreVars, lifeVars, statusVars, toggleVars, rtu_pc, rtu_data, rtu_crc, rtu_frame, rtu_rx, rtu_valid,
                 rtu_parsed, execVars, pulseVars, rx_start, rx_waiting>>

\* One iteration of `while True`.
read_step(dt) ==
  /\ rx_pc = "read"
  /\ IF rx_waiting
     THEN /\ rx_waiting' = FALSE
          /\ Pass(dt)
          /\ rx_last' = rx_now'
          /\ UNCHANGED rx_pc
     ELSE IF rx_now - rx_last > IdleTicks
     THEN rx_pc' = "returned" /\ UNCHANGED <<rx_now, rx_last, rx_waiting>>
     ELSE IF rx_now - rx_start > TimeoutTicks
     THEN rx_pc' = "raised" /\ UNCHANGED <<rx_now, rx_last, rx_waiting>>
     ELSE Pass(dt) /\ UNCHANGED <<rx_pc, rx_last, rx_waiting>>
  /\ UNCHANGED <<coreVars, lifeVars, statusVars, toggleVars, rtu_pc, rtu_data, rtu_crc, rtu_frame, rtu_rx, rtu_valid,
                 rtu_parsed, execVars, pulseVars, rx_start>>

NextRecv ==
  \/ elapse
  \/ receive_frame_enter
  \/ byte_arrives
  \/ \E dt \in {0, 1} : wait_step(dt)
  \/ \E dt \in {0, 1} : read_step(dt)

SpecRecv == InitExec /\ [][NextRecv]_vars

\* ========================================================================
\* SpecPulse: one pulse of a relay by the daemon (_process_request_with_retry)
\* and one on the direct path (RelaySequence.pulse_relay), against a device
\* that answers the 'on' write and the 'off' write in a fixed way each.
\* ========================================================================
\* write_single_coil returns True ("ack"), returns False ("nack": the echo does
\* not match) or raises ("fault").
WriteAnswers == {"ack", "nack", "fault"}

InitPulse ==
  /\ InitCoreVars /\ inputs = AllFalse
  /\ InitLifeVars
  /\ InitFrameVars /\ InitExecVars /\ InitRecvVars /\ InitToggleVars /\ InitStatusVars
  /\ pl_dev \in [{"on", "off"} -> WriteAnswers]
  /\ pl_pc = [p \in Paths |-> "idle"]
  /\ pl_attempt = 0
  /\ pl_result = [p \in Paths |-> "none"]
  /\ pl_writes = [p \in Paths |-> <<>>]

\* The pulse is requested on path p.
pulse_request(p) ==
  /\ pl_pc[p] = "idle"
  /\ pl_pc' = [pl_pc EXCEPT ![p] = "process"]
  /\ UNCHANGED <<coreVars, lifeVars, statusVars, toggleVars, rtu_pc, rtu_data, rtu_crc, rtu_frame, rtu_rx, rtu_valid,
                 rtu_parsed, execVars, recvVars, pl_dev, pl_attempt, pl_result, pl_writes>>

\* The except clause of _process_request_with_retry.
PulseRaise ==
  IF pl_attempt < max_retries
  THEN /\ pl_attempt' = pl_attempt + 1
       /\ pl_pc' = [pl_pc EXCEPT !["daemon"] = "process"]
       /\ UNCHANGED pl_result
  ELSE /\ pl_result' = [pl_result EXCEPT !["daemon"] = "false"]
       /\ pl_pc' = [pl_pc EXCEPT !["daemon"] = "done"]
       /\ UNCHANGED pl_attempt

\* daemon: self.controller.turn_on_relay(relay_id), its result dropped.
daemon_turn_on ==
  /\ pl_pc["daemon"] = "process"
  /\ pl_writes' = [pl_writes EXCEPT !["daemon"] = Append(@, "on")]
  /\ IF pl_dev["on"] = "fault"
     THEN PulseRaise
     ELSE /\ pl_pc' = [pl_pc EXCEPT !["daemon"] = "sleep"]
          /\ UNCHANGED <<pl_attempt, pl_result>>
  /\ UNCHANGED <<coreVars, lifeVars, statusVars, toggleVars, rtu_pc, rtu_data, rtu_crc, rtu_frame, rtu_rx, rtu_valid,
                 rtu_parsed, execVars, recvVars, pl_dev>>

\* daemon: time.sleep(duration); self.controller.turn_off_relay(relay_id);
\* return {"success": True}
daemon_turn_off ==
  /\ pl_pc["daemon"] = "sleep"
  /\ pl_writes' = [pl_writes EXCEPT !["daemon"] = Append(@, "off")]
  /\ IF pl_dev["off"] = "fault"
     THEN PulseRaise
     ELSE /\ pl_result' = [pl_result EXCEPT !["daemon"] = "true"]
          /\ pl_pc' = [pl_pc EXCEPT !["daemon"] = "done"]
          /\ UNCHANGED pl_attempt
  /\ UNCHANGED <<coreVars, lifeVars, statusVars, toggleVars, rtu_pc, rtu_data, rtu_crc, rtu_frame, rtu_rx, rtu_valid,
                 rtu_parsed, execVars, recvVars, pl_dev>>

\* direct: if not self.controller.turn_on_relay(relay_id): return False
direct_turn_on ==
  /\ pl_pc["direct"] = "process"
  /\ pl_writes' = [pl_writes EXCEPT !["direct"] = Append(@, "on")]
  /\ IF pl_dev["on"] = "ack"
     THEN /\ pl_pc' = [pl_pc EXCEPT !["direct"] = "sleep"]
          /\ UNCHANGED pl_result
     ELSE /\ pl_result' = [pl_result EXCEPT !["direct"] = IF pl_dev["on"] = "nack" THEN "false" ELSE "raised"]
          /\ pl_pc' = [pl_pc EXCEPT !["direct"] = "done"]
  /\ UNCHANGED <<coreVars, lifeVars, statusVars, toggleVars, rtu_pc, rtu_data, rtu_crc, rtu_frame, rtu_rx, rtu_valid,
                 rtu_parsed, execVars, recvVars, pl_dev, pl_attempt>>

\* direct: time.sleep(duration); return self.controller.turn_off_relay(relay_id)
direct_turn_off ==
  /\ pl_pc["direct"] = "sleep"
  /\ pl_writes' = [pl_writes EXCEPT !["direct"] = Append(@, "off")]
  /\ pl_result' = [pl_result EXCEPT !["direct"] =
                     CASE pl_dev["off"] = "ack" -> "true"
                       [] pl_dev["off"] = "nack" -> "false"
                       [] pl_dev["off"] = "fault" -> "raised"]
  /\ pl_pc' = [pl_pc EXCEPT !["direct"] = "done"]
  /\ UNCHANGED <<coreVars, lifeVars, statusVars, toggleVars, rtu_pc, rtu_data, rtu_crc, rtu_frame, rtu_rx, rtu_valid,
                 rtu_parsed, execVars, recvVars, pl_dev, pl_attempt>>

NextPulse ==
  \/ \E p \in Paths : pulse_request(p)
  \/ daemon_turn_on
  \/ daemon_turn_off
  \/ direct_turn_on
  \/ direct_turn_off

SpecPulse == InitPulse /\ [][NextPulse]_vars

\* ========================================================================
\* SpecToggle: one toggle invocation, from the smart client to the device
\* ========================================================================
\* execute_relay_command_smart(port, slave_id, relay_id, "toggle") against a
\* running daemon: the client's passes, the daemon's handler of each connection
\* with its own retries, and the direct mode after the last failed pass.

\* The relay after a write of value v that the device has or has not executed,
\* and the count of its changes.
DeviceWrite(v, exec) ==
  /\ tg_relay' = IF exec THEN v ELSE tg_relay
  /\ tg_changes' = IF exec /\ v # tg_relay THEN tg_changes + 1 ELSE tg_changes

\* if client.is_daemon_running(): return client.set_relay(relay_id, None)
smart_toggle ==
  /\ tg_pc = "idle"
  /\ tg_pc' = "send"
  /\ UNCHANGED <<coreVars, lifeVars, statusVars, rtu_pc, rtu_data, rtu_crc, rtu_frame, rtu_rx, rtu_valid,
                 rtu_parsed, execVars, recvVars, pulseVars, tg_attempt, tg_result, tg_hpc,
                 tg_hattempt, tg_hstate, tg_hsuccess, tg_lock, tg_dstate, tg_relay, tg_changes>>

\* The except clause of send_command: the next pass, or the exception that
\* execute_relay_command_smart swallows before the direct mode.
ClientRaise ==
  IF tg_attempt < client_max_retries
  THEN tg_attempt' = tg_attempt + 1 /\ tg_pc' = "send"
  ELSE tg_pc' = "direct" /\ UNCHANGED tg_attempt

\* send_command, one pass: connect and send. ok: both went through, and the
\* daemon starts a handler thread for the connection.
send_command_send(ok) ==
  /\ tg_pc = "send"
  /\ IF ok
     THEN /\ tg_hpc' = [tg_hpc EXCEPT ![tg_attempt] = "acquire"]
          /\ tg_pc' = "recv"
          /\ UNCHANGED tg_attempt
     ELSE ClientRaise /\ UNCHANGED tg_hpc
  /\ UNCHANGED <<coreVars, lifeVars, statusVars, rtu_pc, rtu_data, rtu_crc, rtu_frame, rtu_rx, rtu_valid,
                 rtu_parsed, execVars, recvVars, pulseVars, tg_result,
                 tg_hattempt, tg_hstate, tg_hsuccess, tg_lock, tg_dstate, tg_relay, tg_changes>>

\* send_command: response_data = client_socket.recv(1024) returns the handler's
\* response; set_relay returns response.get("success", False).
send_command_recv ==
  /\ tg_pc = "recv"
  /\ tg_hpc[tg_attempt] = "answered"
  /\ tg_result' = IF tg_hsuccess[tg_attempt] THEN "true" ELSE "false"
  /\ tg_pc' = "done"
  /\ UNCHANGED <<coreVars, lifeVars, statusVars, rtu_pc, rtu_data, rtu_crc, rtu_frame, rtu_rx, rtu_valid,
                 rtu_parsed, execVars, recvVars, pulseVars, tg_attempt, tg_hpc,
                 tg_hattempt, tg_hstate, tg_hsuccess, tg_lock, tg_dstate, tg_relay, tg_changes>>

\* send_command: recv raises socket.timeout after 5 s, whatever the handler of
\* the connection is doing.
send_command_timeout ==
  /\ tg_pc = "recv"
  /\ ClientRaise
  /\ UNCHANGED <<coreVars, lifeVars, statusVars, rtu_pc, rtu_data, rtu_crc, rtu_frame, rtu_rx, rtu_valid,
                 rtu_parsed, execVars, recvVars, pulseVars, tg_result, tg_hpc,
                 tg_hattempt, tg_hstate, tg_hsuccess, tg_lock, tg_dstate, tg_relay, tg_changes>>

\* _handle_client_safe: acquired = self.serial_lock.acquire(timeout=3.0)
handler_acquire(k) ==
  /\ tg_hpc[k] = "acquire"
  /\ IF tg_lock = NoPass
     THEN /\ tg_lock' = k
          /\ tg_hpc' = [tg_hpc EXCEPT ![k] = "read"]
          /\ UNCHANGED tg_hsuccess
     ELSE /\ tg_hpc' = [tg_hpc EXCEPT ![k] = "answered"]
          /\ tg_hsuccess' = [tg_hsuccess EXCEPT ![k] = FALSE]
          /\ UNCHANGED tg_lock
  /\ UNCHANGED <<coreVars, lifeVars, statusVars, rtu_pc, rtu_data, rtu_crc, rtu_frame, rtu_rx, rtu_valid,
                 rtu_parsed, execVars, recvVars, pulseVars, tg_pc, tg_attempt, tg_result,
                 tg_hattempt, tg_hstate, tg_dstate, tg_relay, tg_changes>>

\* The except clause of _process_request_with_retry, then the finally clause
\* of _handle_client_safe once the response is there.
HandlerRaise(k) ==
  IF tg_hattempt[k] < max_retries
  THEN /\ tg_hattempt' = [tg_hattempt EXCEPT ![k] = @ + 1]
       /\ tg_hpc' = [tg_hpc EXCEPT ![k] = "read"]
       /\ UNCHANGED <<tg_hsuccess, tg_lock>>
  ELSE /\ tg_hsuccess' = [tg_hsuccess EXCEPT ![k] = FALSE]
       /\ tg_hpc' = [tg_hpc EXCEPT ![k] = "answered"]
       /\ tg_lock' = NoPass
       /\ UNCHANGED tg_hattempt

\* toggle_relay: current_state = self.get_relay_state(relay_id). ok: the read
\* was answered.
handler_read(k, ok) ==
  /\ tg_hpc[k] = "read"
  /\ IF ok
     THEN /\ tg_hstate' = [tg_hstate EXCEPT ![k] = tg_relay]
          /\ tg_hpc' = [tg_hpc EXCEPT ![k] = "write"]
          /\ UNCHANGED <<tg_hattempt, tg_hsuccess, tg_lock>>
     ELSE HandlerRaise(k) /\ UNCHANGED tg_hstate
  /\ UNCHANGED <<coreVars, lifeVars, statusVars, rtu_pc, rtu_data, rtu_crc, rtu_frame, rtu_rx, rtu_valid,
                 rtu_parsed, execVars, recvVars, pulseVars, tg_pc, tg_attempt, tg_result,
                 tg_dstate, tg_relay, tg_changes>>

\* toggle_relay: return self.set_relay_state(relay_id, not current_state.state);
\* return {"success": success}. exec: the device executed the write; ok: its
\* echo was received.
handler_write(k, exec, ok) ==
  /\ tg_hpc[k] = "write"
  /\ DeviceWrite(~tg_hstate[k], exec)
  /\ IF exec /\ ok
     THEN /\ tg_hsuccess' = [tg_hsuccess EXCEPT ![k] = TRUE]
          /\ tg_hpc' = [tg_hpc EXCEPT ![k] = "answered"]
          /\ tg_lock' = NoPass
          /\ UNCHANGED tg_hattempt
     ELSE HandlerRaise(k)
  /\ UNCHANGED <<coreVars, lifeVars, statusVars, rtu_pc, rtu_data, rtu_crc, rtu_frame, rtu_rx, rtu_valid,
                 rtu_parsed, execVars, recvVars, pulseVars, tg_pc, tg_attempt, tg_result,
                 tg_hstate, tg_dstate>>

\* The direct mode: with USBRelayController(port, slave_id) as controller.
\* ok: the serial device could be opened beside the daemon.
toggle_direct_open(ok) ==
  /\ tg_pc = "direct"
  /\ IF ok
     THEN tg_pc' = "direct_read" /\ UNCHANGED tg_result
     ELSE tg_pc' = "done" /\ tg_result' = "false"
  /\ UNCHANGED <<coreVars, lifeVars, statusVars, rtu_pc, rtu_data, rtu_crc, rtu_frame, rtu_rx, rtu_valid,
                 rtu_parsed, execVars, recvVars, pulseVars, tg_attempt, tg_hpc,
                 tg_hattempt, tg_hstate, tg_hsuccess, tg_lock, tg_dstate, tg_relay, tg_changes>>

\* The direct mode: controller.toggle_relay(relay_id), the read.
toggle_direct_read(ok) ==
  /\ tg_pc = "direct_read"
  /\ IF ok
     THEN tg_dstate' = tg_relay /\ tg_pc' = "direct_write" /\ UNCHANGED tg_result
     ELSE tg_pc' = "done" /\ tg_result' = "false" /\ UNCHANGED tg_dstate
  /\ UNCHANGED <<coreVars, lifeVars, statusVars, rtu_pc, rtu_data, rtu_crc, rtu_frame, rtu_rx, rtu_valid,
                 rtu_parsed, execVars, recvVars, pulseVars, tg_attempt, tg_hpc,
                 tg_hattempt, tg_hstate, tg_hsuccess, tg_lock, tg_relay, tg_changes>>

\* The direct mode: controller.toggle_relay(relay_id), the write; an exception
\* makes the operation return False.
toggle_direct_write(exec, ok) ==
  /\ tg_pc = "direct_write"
  /\ DeviceWrite(~tg_dstate, exec)
  /\ tg_result' = IF exec /\ ok THEN "true" ELSE "false"
  /\ tg_pc' = "done"
  /\ UNCHANGED <<coreVars, lifeVars, statusVars, rtu_pc, rtu_data, rtu_crc, rtu_frame, rtu_rx, rtu_valid,
                 rtu_parsed, execVars, recvVars, pulseVars, tg_attempt, tg_hpc,
                 tg_hattempt, tg_hstate, tg_hsuccess, tg_lock, tg_dstate>>

NextToggle ==
  \/ smart_toggle
  \/ \E ok \in BOOLEAN : send_command_send(ok)
  \/ send_command_recv
  \/ send_command_timeout
  \/ \E k \in Passes : handler_acquire(k)
  \/ \E k \in Passes, ok \in BOOLEAN : handler_read(k, ok)
  \/ \E k \in Passes, exec, ok \in BOOLEAN : handler_write(k, exec, ok)
  \/ \E ok \in BOOLEAN : toggle_direct_open(ok)
  \/ \E ok \in BOOLEAN : toggle_direct_read(ok)
  \/ \E exec, ok \in BOOLEAN : toggle_direct_write(exec, ok)

SpecToggle == InitExec /\ [][NextToggle]_vars

\* ========================================================================
\* SpecStatus: the status cache field by field
\* ========================================================================
\* The poller's three assignments and a get_status handler's three reads are
\* steps of their own; stop() runs beside them and waits for no thread.

\* stop(): self.running = False
status_stop_running ==
  /\ sc_main = "serving"
  /\ sc_running' = FALSE
  /\ sc_main' = "stopping"
  /\ UNCHANGED <<coreVars, lifeVars, rtu_pc, rtu_data, rtu_crc, rtu_frame, rtu_rx, rtu_valid,
                 rtu_parsed, execVars, recvVars, pulseVars, toggleVars, sc_pc, sc_serial_lock,
                 status_cache_lock, sc_cycle, sc_cache, sc_response>>

\* stop(): controller.disconnect(), server_socket.close(), os.unlink: stop() has
\* completed.
status_stop_complete ==
  /\ sc_main = "stopping"
  /\ sc_main' = "stopped"
  /\ UNCHANGED <<coreVars, lifeVars, rtu_pc, rtu_data, rtu_crc, rtu_frame, rtu_rx, rtu_valid,
                 rtu_parsed, execVars, recvVars, pulseVars, toggleVars, sc_running, sc_pc,
                 sc_serial_lock, status_cache_lock, sc_cycle, sc_cache, sc_response>>

\* while self.running: if self.serial_lock.acquire(blocking=False): a poll
\* cycle begins; a taken lock skips it; running false ends the loop.
status_poll_begin ==
  /\ sc_pc[Poller] = "sleep"
  /\ IF ~sc_running
     THEN /\ sc_pc' = [sc_pc EXCEPT ![Poller] = "done"]
          /\ UNCHANGED <<sc_serial_lock, sc_cycle>>
     ELSE /\ sc_serial_lock = NoThread
          /\ sc_cycle < MaxPolls
          /\ sc_serial_lock' = Poller
          /\ sc_cycle' = sc_cycle + 1
          /\ sc_pc' = [sc_pc EXCEPT ![Poller] = "read"]
  /\ UNCHANGED <<coreVars, lifeVars, rtu_pc, rtu_data, rtu_crc, rtu_frame, rtu_rx, rtu_valid,
                 rtu_parsed, execVars, recvVars, pulseVars, toggleVars, sc_main, sc_running,
                 status_cache_lock, sc_cache, sc_response>>

\* get_all_relay_states and get_all_input_states. ok: both returned; which
\* needs the transport, closed once stop() has completed.
status_poll_read(ok) ==
  /\ sc_pc[Poller] = "read"
  /\ sc_pc' = [sc_pc EXCEPT ![Poller] = IF ok /\ sc_main # "stopped" THEN "enter" ELSE "release"]
  /\ UNCHANGED <<coreVars, lifeVars, rtu_pc, rtu_data, rtu_crc, rtu_frame, rtu_rx, rtu_valid,
                 rtu_parsed, execVars, recvVars, pulseVars, toggleVars, sc_main, sc_running,
                 sc_serial_lock, status_cache_lock, sc_cycle, sc_cache, sc_response>>

\* with self.status_cache_lock: entered by thread t when the lock is free.
EnterCache(t) ==
  /\ sc_pc[t] = "enter"
  /\ status_cache_lock = NoThread
  /\ status_cache_lock' = t
  /\ sc_pc' = [sc_pc EXCEPT ![t] = Fields[1]]

\* Inside the with block a thread stands before the field it accesses next;
\* leaving the block after the last field releases the lock.
LeaveCache(t, i) ==
  IF i < 3
  THEN sc_pc' = [sc_pc EXCEPT ![t] = Fields[i + 1]] /\ UNCHANGED status_cache_lock
  ELSE sc_pc' = [sc_pc EXCEPT ![t] = "release"] /\ status_cache_lock' = NoThread

\* The poller: with self.status_cache_lock:
status_poll_enter ==
  /\ EnterCache(Poller)
  /\ UNCHANGED <<coreVars, lifeVars, rtu_pc, rtu_data, rtu_crc, rtu_frame, rtu_rx, rtu_valid,
                 rtu_parsed, execVars, recvVars, pulseVars, toggleVars, sc_main, sc_running,
                 sc_serial_lock, sc_cycle, sc_cache, sc_response>>

\* Mutant of status_poll_write: every field is assigned in a locked region of
\* its own, with both locks given up after it.
status_poll_write_apart(i) ==
  /\ sc_pc[Poller] = Fields[i]
  /\ sc_cache' = [sc_cache EXCEPT ![i] = sc_cycle]
  /\ sc_pc' = [sc_pc EXCEPT ![Poller] = IF i < 3 THEN Fields[i + 1] ELSE "sleep"]
  /\ status_cache_lock' = NoThread
  /\ sc_serial_lock' = NoThread
  /\ UNCHANGED <<coreVars, lifeVars, rtu_pc, rtu_data, rtu_crc, rtu_frame, rtu_rx, rtu_valid,
                 rtu_parsed, execVars, recvVars, pulseVars, toggleVars, sc_main, sc_running,
                 sc_cycle, sc_response>>

\* self.last_relay_states = relay_list; self.last_input_states = input_list;
\* self.last_status_time = time.time(): one assignment per step.
status_poll_write(i) ==
  /\ sc_pc[Poller] = Fields[i]
  /\ sc_cache' = [sc_cache EXCEPT ![i] = sc_cycle]
  /\ LeaveCache(Poller, i)
  /\ UNCHANGED <<coreVars, lifeVars, rtu_pc, rtu_data, rtu_crc, rtu_frame, rtu_rx, rtu_valid,
                 rtu_parsed, execVars, recvVars, pulseVars, toggleVars, sc_main, sc_running,
                 sc_serial_lock, sc_cycle, sc_response>>

\* finally: self.serial_lock.release(); time.sleep
status_poll_release ==
  /\ sc_pc[Poller] = "release"
  /\ sc_serial_lock' = NoThread
  /\ sc_pc' = [sc_pc EXCEPT ![Poller] = "sleep"]
  /\ UNCHANGED <<coreVars, lifeVars, rtu_pc, rtu_data, rtu_crc, rtu_frame, rtu_rx, rtu_valid,
                 rtu_parsed, execVars, recvVars, pulseVars, toggleVars, sc_main, sc_running,
                 status_cache_lock, sc_cycle, sc_cache, sc_response>>

\* _handle_client_safe: a get_status request is received;
\* acquired = self.serial_lock.acquire(timeout=3.0); not acquired: the busy
\* response, which carries no field.
status_handler_acquire(h) ==
  /\ sc_pc[h] = "recv"
  /\ sc_response' = [sc_response EXCEPT ![h] = <<>>]
  /\ IF sc_serial_lock = NoThread
     THEN sc_serial_lock' = h /\ sc_pc' = [sc_pc EXCEPT ![h] = "enter"]
     ELSE UNCHANGED sc_serial_lock /\ sc_pc' = [sc_pc EXCEPT ![h] = "send"]
  /\ UNCHANGED <<coreVars, lifeVars, rtu_pc, rtu_data, rtu_crc, rtu_frame, rtu_rx, rtu_valid,
                 rtu_parsed, execVars, recvVars, pulseVars, toggleVars, sc_main, sc_running,
                 status_cache_lock, sc_cycle, sc_cache>>

\* _process_request_with_retry, get_status: with self.status_cache_lock:
status_handler_enter(h) ==
  /\ EnterCache(h)
  /\ UNCHANGED <<coreVars, lifeVars, rtu_pc, rtu_data, rtu_crc, rtu_frame, rtu_rx, rtu_valid,
                 rtu_parsed, execVars, recvVars, pulseVars, toggleVars, sc_main, sc_running,
                 sc_serial_lock, sc_cycle, sc_cache, sc_response>>

\* The response dict is built field by field: self.last_relay_states.copy(),
\* self.last_input_states.copy(), self.last_status_time.
status_handler_read(h, i) ==
  /\ sc_pc[h] = Fields[i]
  /\ sc_response' = [sc_response EXCEPT ![h] = Append(@, sc_cache[i])]
  /\ LeaveCache(h, i)
  /\ UNCHANGED <<coreVars, lifeVars, rtu_pc, rtu_data, rtu_crc, rtu_frame, rtu_rx, rtu_valid,
                 rtu_parsed, execVars, recvVars, pulseVars, toggleVars, sc_main, sc_running,
                 sc_serial_lock, sc_cycle, sc_cache>>

\* finally: self.serial_lock.release()
status_handler_release(h) ==
  /\ sc_pc[h] = "release"
  /\ sc_serial_lock' = NoThread
  /\ sc_pc' = [sc_pc EXCEPT ![h] = "send"]
  /\ UNCHANGED <<coreVars, lifeVars, rtu_pc, rtu_data, rtu_crc, rtu_frame, rtu_rx, rtu_valid,
                 rtu_parsed, execVars, recvVars, pulseVars, toggleVars, sc_main, sc_running,
                 status_cache_lock, sc_cycle, sc_cache, sc_response>>

\* client_socket.send(json.dumps(response).encode()); while self.running: the
\* next recv, or the end of the handler.
status_handler_send(h) ==
  /\ sc_pc[h] = "send"
  /\ sc_pc' = [sc_pc EXCEPT ![h] = IF sc_running THEN "recv" ELSE "closed"]
  /\ UNCHANGED <<coreVars, lifeVars, rtu_pc, rtu_data, rtu_crc, rtu_frame, rtu_rx, rtu_valid,
                 rtu_parsed, execVars, recvVars, pulseVars, toggleVars, sc_main, sc_running,
                 sc_serial_lock, status_cache_lock, sc_cycle, sc_cache, sc_response>>

NextStatus ==
  \/ status_stop_running
  \/ status_stop_complete
  \/ status_poll_begin
  \/ \E ok \in BOOLEAN : status_poll_read(ok)
  \/ status_poll_enter
  \/ \E i \in 1..3 : status_poll_write(i)
  \/ status_poll_release
  \/ \E h \in Handlers : status_handler_acquire(h)
  \/ \E h \in Handlers : status_handler_enter(h)
  \/ \E h \in Handlers, i \in 1..3 : status_handler_read(h, i)
  \/ \E h \in Handlers : status_handler_release(h)
  \/ \E h \in Handlers : status_handler_send(h)

SpecStatus == InitExec /\ [][NextStatus]_vars

\* ========================================================================
\* Properties of Spec
\* ========================================================================

\* C1: in a running daemon at most one thread, the background poller or a
\* connection handler, has a transaction outstanding on the serial transport;
\* no two transactions overlap.
C1_NoOverlap == Cardinality({t \in Threads : InTransaction(t)}) <= 1

\* C1 witness: a handler's transaction is outstanding while another handler
\* waits for the device and the poller is due.
C1_Witness ==
  /\ running
  /\ \E h \in Handlers : InTransaction(h) /\ \E g \in Handlers \ {h} : pc[g] = "acquire"
  /\ pc[Poller] = "poll_sleep"

\* C2 (as claimed): a get_status request is never answered "device busy".
C2_GetStatusNeverBusy ==
  \A h \in Handlers : request[h].command = "get_status" => response[h] # Busy

\* C3: a request that did not obtain the device within the wait bound is
\* answered "device busy"; no frame was sent for it and it never held the lock;
\* a waiting handler can always leave the wait, by obtaining the lock or by the timeout.
C3_BusyWithoutTransaction ==
  \A h \in Handlers :
    /\ response[h] = Busy => ~sent[h] /\ serial_lock # h /\ pc[h] = "send"
    /\ pc[h] = "acquire" => ENABLED (handle_client_acquire(h) \/ handle_client_busy(h))

\* C3 witness: a set_relay request was answered busy while another thread held the device.
C3_Witness ==
  \E h \in Handlers :
    /\ response[h] = Busy
    /\ request[h].command = "set_relay"
    /\ serial_lock \in Threads \ {h}

C8_StopDrains == controller = "closed" => \A t \in Threads : ~InTransaction(t)

\* No handler is inside a locked region.
Quiescent == \A h \in Handlers : pc[h] \in {"closed", "recv", "acquire", "send"}

\* C9 (as claimed): after N successful toggles and no other write, the relay
\* equals its initial state (off) flipped N times.
C9_ToggledNTimes ==
  only_toggles /\ Quiescent => \A r \in RelayIds : coils[r] = toggles_ok

\* Positions of a pulse between its 'on' write and its 'off' write.
PulseMid == {"pulse_on_wait", "pulse_sleep", "pulse_off_wait"}

\* C10: between the 'on' write and the 'off' write of a pulse no other thread of
\* the daemon, handler or poller, has a transaction on the device.
C10_PulseIsOneUnit ==
  \A h \in Handlers :
    pc[h] \in PulseMid => \A t \in Threads \ {h} : ~InTransaction(t) /\ serial_lock # t

\* C10 witness: a pulse is in its wait while another client's request waits and
\* the poller is due.
C10_Witness ==
  \E h \in Handlers :
    /\ pc[h] = "pulse_sleep"
    /\ \E g \in Handlers \ {h} : pc[g] = "acquire" /\ request[g].command = "set_relay"
    /\ pc[Poller] = "poll_sleep" /\ running

\* C11 (as claimed): a request whose transaction failed with a device error
\* response or an address mismatch is not attempted again: no handler retries
\* its request after such a fault.
C11_DeviceFaultNotRetried == \A h \in Handlers : ~fault_retried[h]

\* str(e) of the exceptions a command can end with.
ErrorTexts == DeviceFaults \cup {"timeout", "not_connected"}

\* Positions of a handler inside _process_request_with_retry.
InProcess == {"process", "tog_write", "pulse_sleep"} \cup HandlerWait

\* C12: _process_request_with_retry makes at most max_retries + 1 = 3 attempts:
\* the loop variable never exceeds max_retries, it moves only by one step at a
\* time inside the call, and a response built from an exception is built on the
\* last attempt, with success false and the text of the exception.
C12_AtMostThreeAttempts ==
  \A h \in Handlers :
    /\ attempt[h] \in 0..max_retries
    /\ attempt[h] > 0 => pc[h] \in InProcess \cup {"send"}
    /\ response[h].error \in ErrorTexts =>
         attempt[h] = max_retries /\ ~response[h].success /\ pc[h] = "send"

\* C12 witness: a command failed on each of its three attempts and the failure
\* response is about to be sent.
C12_Witness ==
  \E h \in Handlers :
    pc[h] = "send" /\ attempt[h] = max_retries /\ response[h] = Failed("timeout")

\* C16: the three fields of the status cache change only in the step in which
\* the poller, holding the device, has received its second read; no step of a
\* handler, whatever the command and its outcome, changes any of them.
C16_CacheWrittenByPollerOnly ==
  [][cacheVars' # cacheVars =>
       /\ pc[Poller] = "poll_inputs_wait" /\ pc'[Poller] = "poll_sleep"
       /\ serial_lock = Poller
       /\ \A h \in Handlers : pc'[h] = pc[h] /\ response'[h] = response[h]]_vars

\* C16 witness: a set_relay on has succeeded after a poll, and the cache still
\* holds the relay as the poll read it.
C16_Witness ==
  \E h \in Handlers :
    /\ pc[h] = "send" /\ request[h].command = "set_relay" /\ request[h].state = "on"
    /\ response[h].success
    /\ last_status_time > 0
    /\ coils[request[h].relay_id] /\ ~last_relay_states[request[h].relay_id]

\* The step in which the poller writes the result of a poll to the cache.
CacheWrite ==
  /\ pc[Poller] = "poll_inputs_wait" /\ pc'[Poller] = "poll_sleep"
  /\ last_relay_states' = relay_list /\ last_input_states' = inputs

\* C17 (as claimed): with the daemon Running and the device answering, polls
\* are written to the cache infinitely often, whatever requests keep arriving.
C17_PollsNeverStarve == []<><<CacheWrite>>_vars

\* C17 (amended): the poller takes the device only when it finds it free; if
\* from some moment on no handler holds the device, polls are written to the
\* cache infinitely often.
C17_PollsWhenDeviceFree ==
  <>[](serial_lock \notin Handlers) => []<><<CacheWrite>>_vars

\* C17 witness: a poll has been written to the cache, and the poller is due
\* again while a handler holds the device and another waits.
C17_Witness ==
  /\ last_status_time > 0
  /\ pc[Poller] = "poll_sleep"
  /\ serial_lock \in Handlers
  /\ waitq # <<>>

\* A response as the protocol requires it for a request: a boolean success, an
\* error text exactly when the command failed by exception, is unknown or found
\* the device busy, and the status arrays exactly in the answer to get_status.
WellFormed(req, resp) ==
  /\ resp.success \in BOOLEAN
  /\ resp.success => resp.error = ""
  /\ ~resp.success => resp.error \in ErrorTexts \cup {"busy", "unknown command"}
  /\ resp.error = "unknown command" =>
       req.command \notin {"get_status", "set_relay", "pulse_relay"}
  /\ resp.error \in ErrorTexts => req.command \in {"set_relay", "pulse_relay"}
  /\ (req.command = "get_status" /\ resp.success) <=> resp.relay_states # <<>>

is_daemon_running == socket_path # "absent"

\* An instance is Running from self.running = True until stop() clears it.
Running(d) == inst_running[d]

\* Mutant of StartFailed: the failure is swallowed and start() goes on.
StartContinues(d) == inst_pc' = [inst_pc EXCEPT ![d] = "start_unlink"]

\* The except clause of start(): self.stop()
StartFailed(d) == inst_pc' = [inst_pc EXCEPT ![d] = "stop_running"]

\* start(): self.controller = USBRelayController(...); self.controller.connect()
\* ok: the serial device could be opened.
start_connect(d, ok) ==
  /\ inst_pc[d] = "new"
  /\ IF ok
     THEN /\ inst_controller' = [inst_controller EXCEPT ![d] = "open"]
          /\ inst_pc' = [inst_pc EXCEPT ![d] = "start_unlink"]
     ELSE /\ inst_controller' = [inst_controller EXCEPT ![d] = "closed"]
          /\ StartFailed(d)
  /\ UNCHANGED <<coreVars, rtuVars, socket_path, inst_running, inst_socket, clientVars>>

\* start(): if os.path.exists(self.socket_path): os.unlink(self.socket_path)
start_unlink(d) ==
  /\ inst_pc[d] = "start_unlink"
  /\ socket_path' = "absent"
  /\ inst_pc' = [inst_pc EXCEPT ![d] = "start_bind"]
  /\ UNCHANGED <<coreVars, rtuVars, inst_running, inst_controller, inst_socket, clientVars>>

\* start(): self.server_socket = socket.socket(...); self.server_socket.bind(path)
\* bind raises when the path exists again.
start_bind(d) ==
  /\ inst_pc[d] = "start_bind"
  /\ IF socket_path = "absent"
     THEN /\ socket_path' = d
          /\ inst_socket' = [inst_socket EXCEPT ![d] = "bound"]
          /\ inst_pc' = [inst_pc EXCEPT ![d] = "start_listen"]
     ELSE /\ inst_socket' = [inst_socket EXCEPT ![d] = "created"]
          /\ StartFailed(d)
          /\ UNCHANGED socket_path
  /\ UNCHANGED <<coreVars, rtuVars, inst_running, inst_controller, clientVars>>

\* start(): self.server_socket.listen(5); self.running = True
start_listen(d) ==
  /\ inst_pc[d] = "start_listen"
  /\ inst_socket' = [inst_socket EXCEPT ![d] = "listening"]
  /\ inst_running' = [inst_running EXCEPT ![d] = TRUE]
  /\ inst_pc' = [inst_pc EXCEPT ![d] = "serving"]
  /\ UNCHANGED <<coreVars, rtuVars, socket_path, inst_controller, clientVars>>

\* stop() is called on a serving instance (signal handler, or another thread).
stop_called(d) ==
  /\ inst_pc[d] = "serving"
  /\ inst_pc' = [inst_pc EXCEPT ![d] = "stop_running"]
  /\ UNCHANGED <<coreVars, rtuVars, socket_path, inst_running, inst_controller, inst_socket,
                 clientVars>>

\* stop(): self.running = False
inst_stop_running(d) ==
  /\ inst_pc[d] = "stop_running"
  /\ inst_running' = [inst_running EXCEPT ![d] = FALSE]
  /\ inst_pc' = [inst_pc EXCEPT ![d] = "stop_disconnect"]
  /\ UNCHANGED <<coreVars, rtuVars, socket_path, inst_controller, inst_socket, clientVars>>

\* stop(): if self.controller: self.controller.disconnect()
inst_stop_disconnect(d) ==
  /\ inst_pc[d] = "stop_disconnect"
  /\ inst_controller' = [inst_controller EXCEPT ![d] = IF @ = "none" THEN @ ELSE "closed"]
  /\ inst_pc' = [inst_pc EXCEPT ![d] = "stop_close"]
  /\ UNCHANGED <<coreVars, rtuVars, socket_path, inst_running, inst_socket, clientVars>>

\* stop(): if self.server_socket: self.server_socket.close()
inst_stop_close(d) ==
  /\ inst_pc[d] = "stop_close"
  /\ inst_socket' = [inst_socket EXCEPT ![d] = IF @ = "none" THEN @ ELSE "closed"]
  /\ inst_pc' = [inst_pc EXCEPT ![d] = "stop_unlink"]
  /\ UNCHANGED <<coreVars, rtuVars, socket_path, inst_running, inst_controller, clientVars>>

\* stop(): if os.path.exists(self.socket_path): os.unlink(self.socket_path)
inst_stop_unlink(d) ==
  /\ inst_pc[d] = "stop_unlink"
  /\ socket_path' = "absent"
  /\ inst_pc' = [inst_pc EXCEPT ![d] = "stopped"]
  /\ UNCHANGED <<coreVars, rtuVars, inst_running, inst_controller, inst_socket, clientVars>>

\* --------------------------- execute_relay_command_smart / get_status_smart
SmartOps == {"relay", "status"}

\* What the operation returns when the daemon has answered: set_relay and
\* pulse_relay return response.get("success", False), get_status the response.
DaemonResult(op, success) ==
  IF op = "relay" THEN Result(success, "")
  ELSE Result(success, IF success THEN "" ELSE "daemon_error")

\* What the direct mode returns: the controller call's value or False;
\* get_status_smart the status dict or {"success": False, "error": str(e)}.
DirectResult(op, success) ==
  IF op = "relay" THEN Result(success, "")
  ELSE Result(success, IF success THEN "" ELSE "direct_error")

\* Mutant of FallBack: the exception of send_command ends the operation.
FallBackGivesUp(c) ==
  /\ cl_pc' = [cl_pc EXCEPT ![c] = "done"]
  /\ cl_path' = [cl_path EXCEPT ![c] = "fallback"]

\* The exception of send_command is swallowed: the direct mode follows.
FallBack(c) ==
  /\ cl_pc' = [cl_pc EXCEPT ![c] = "direct"]
  /\ cl_path' = [cl_path EXCEPT ![c] = "fallback"]

\* client = DaemonClient(port); if client.is_daemon_running(): ... else the direct mode
smart_check(c, op) ==
  /\ cl_pc[c] = "idle"
  /\ cl_op' = [cl_op EXCEPT ![c] = op]
  /\ cl_pc' = [cl_pc EXCEPT ![c] = IF is_daemon_running THEN "send_command" ELSE "direct"]
  /\ cl_path' = [cl_path EXCEPT ![c] = IF is_daemon_running THEN "daemon" ELSE "direct"]
  /\ UNCHANGED <<coreVars, rtuVars, socket_path, inst_pc, inst_running, inst_controller, inst_socket,
                 cl_attempt, cl_controller, cl_result, cl_connects, cl_socket>>

\* DaemonClient.send_command: if not self.is_daemon_running(): raise
send_command_enter(c) ==
  /\ cl_pc[c] = "send_command"
  /\ IF is_daemon_running
     THEN /\ cl_pc' = [cl_pc EXCEPT ![c] = "exchange"]
          /\ UNCHANGED cl_path
     ELSE FallBack(c)
  /\ UNCHANGED <<coreVars, rtuVars, socket_path, inst_pc, inst_running, inst_controller, inst_socket,
                 cl_attempt, cl_controller, cl_op, cl_result, cl_connects, cl_socket>>

\* The instance whose accept loop answers a connect to self.socket_path.
Answers(d) == socket_path = d /\ inst_socket[d] = "listening" /\ inst_running[d]

\* client_socket.connect(self.socket_path) can succeed: a listening socket is
\* bound to the path.
Listening == \E d \in Instances : socket_path = d /\ inst_socket[d] = "listening"

\* client_socket after one pass of send_command's loop: closed by
\* client_socket.close() when the response was read and decoded; left as it was
\* when connect, send, recv or json.loads raised, since the except clause does
\* not close it.
ClientSocketAfter(exchanged) ==
  IF exchanged THEN {"closed"}
  ELSE IF Listening THEN {"unconnected", "connected"}
  ELSE {"unconnected"}

\* Mutant of send_command_exchange: a failed exchange is always repeated.
send_command_exchange_again(c, ok, success) ==
  /\ cl_pc[c] = "exchange"
  /\ cl_connects' = [cl_connects EXCEPT ![c] = @ + 1]
  /\ \E sock \in ClientSocketAfter(ok /\ \E d \in Instances : Answers(d)) :
       cl_socket' = [cl_socket EXCEPT ![c] = sock]
  /\ IF ok /\ \E d \in Instances : Answers(d)
     THEN /\ cl_pc' = [cl_pc EXCEPT ![c] = "done"]
          /\ cl_result' = [cl_result EXCEPT ![c] = DaemonResult(cl_op[c], success)]
          /\ UNCHANGED <<cl_attempt, cl_path>>
     ELSE /\ cl_attempt' = [cl_attempt EXCEPT ![c] = @ + 1]
          /\ UNCHANGED <<cl_pc, cl_path, cl_result>>
  /\ UNCHANGED <<coreVars, rtuVars, socket_path, inst_pc, inst_running, inst_controller, inst_socket,
                 cl_controller, cl_op>>

\* DaemonClient.send_command, one pass of the retry loop: connect, send, recv.
\* ok: nothing failed or timed out on the client's side; the exchange then
\* succeeds when an instance answers. success: the response's success field.
send_command_exchange(c, ok, success) ==
  /\ cl_pc[c] = "exchange"
  /\ cl_connects' = [cl_connects EXCEPT ![c] = @ + 1]
  /\ \E sock \in ClientSocketAfter(ok /\ \E d \in Instances : Answers(d)) :
       cl_socket' = [cl_socket EXCEPT ![c] = sock]
  /\ IF ok /\ \E d \in Instances : Answers(d)
     THEN /\ cl_pc' = [cl_pc EXCEPT ![c] = "done"]
          /\ cl_result' = [cl_result EXCEPT ![c] = DaemonResult(cl_op[c], success)]
          /\ UNCHANGED <<cl_attempt, cl_path>>
     ELSE IF cl_attempt[c] < client_max_retries
          THEN /\ cl_attempt' = [cl_attempt EXCEPT ![c] = @ + 1]
               /\ UNCHANGED <<cl_pc, cl_path, cl_result>>
          ELSE /\ FallBack(c)
               /\ UNCHANGED <<cl_attempt, cl_result>>
  /\ UNCHANGED <<coreVars, rtuVars, socket_path, inst_pc, inst_running, inst_controller, inst_socket,
                 cl_controller, cl_op>>

\* with USBRelayController(port, slave_id) as controller: __enter__ connects.
\* ok: the serial device could be opened; else the except clause returns.
direct_open(c, ok) ==
  /\ cl_pc[c] = "direct"
  /\ IF ok
     THEN /\ cl_controller' = [cl_controller EXCEPT ![c] = "open"]
          /\ cl_pc' = [cl_pc EXCEPT ![c] = "direct_op"]
          /\ UNCHANGED cl_result
     ELSE /\ cl_pc' = [cl_pc EXCEPT ![c] = "done"]
          /\ cl_result' = [cl_result EXCEPT ![c] = DirectResult(cl_op[c], FALSE)]
          /\ UNCHANGED cl_controller
  /\ UNCHANGED <<coreVars, rtuVars, socket_path, inst_pc, inst_running, inst_controller, inst_socket,
                 cl_attempt, cl_op, cl_path, cl_connects, cl_socket>>

\* Mutant of direct_finish: the operation returns without leaving the with block.
direct_finish_open(c, ok) ==
  /\ cl_pc[c] = "direct_op"
  /\ cl_result' = [cl_result EXCEPT ![c] = DirectResult(cl_op[c], ok)]
  /\ cl_pc' = [cl_pc EXCEPT ![c] = "done"]
  /\ UNCHANGED <<coreVars, rtuVars, socket_path, inst_pc, inst_running, inst_controller, inst_socket,
                 cl_attempt, cl_op, cl_path, cl_connects, cl_socket, cl_controller>>

\* The direct operation's transactions, then __exit__ disconnects and the value
\* is returned. ok: the device answered every transaction correctly.
direct_finish(c, ok) ==
  /\ cl_pc[c] = "direct_op"
  /\ cl_controller' = [cl_controller EXCEPT ![c] = "closed"]
  /\ cl_result' = [cl_result EXCEPT ![c] = DirectResult(cl_op[c], ok)]
  /\ cl_pc' = [cl_pc EXCEPT ![c] = "done"]
  /\ UNCHANGED <<coreVars, rtuVars, socket_path, inst_pc, inst_running, inst_controller, inst_socket,
                 cl_attempt, cl_op, cl_path, cl_connects, cl_socket>>

\* The caller has the value; the client may invoke another operation.
smart_return(c) ==
  /\ cl_pc[c] = "done"
  /\ cl_pc' = [cl_pc EXCEPT ![c] = "idle"]
  /\ cl_attempt' = [cl_attempt EXCEPT ![c] = 0]
  /\ cl_controller' = [cl_controller EXCEPT ![c] = "none"]
  /\ cl_op' = [cl_op EXCEPT ![c] = "none"]
  /\ cl_result' = [cl_result EXCEPT ![c] = NoResult]
  /\ cl_path' = [cl_path EXCEPT ![c] = "none"]
  /\ cl_connects' = [cl_connects EXCEPT ![c] = 0]
  /\ cl_socket' = [cl_socket EXCEPT ![c] = "none"]
  /\ UNCHANGED <<coreVars, rtuVars, socket_path, inst_pc, inst_running, inst_controller, inst_socket>>

NextLife ==
  \/ \E d \in Instances, ok \in BOOLEAN : start_connect(d, ok)
  \/ \E d \in Instances : start_unlink(d)
  \/ \E d \in Instances : start_bind(d)
  \/ \E d \in Instances : start_listen(d)
  \/ \E d \in Instances : stop_called(d)
  \/ \E d \in Instances : inst_stop_running(d)
  \/ \E d \in Instances : inst_stop_disconnect(d)
  \/ \E d \in Instances : inst_stop_close(d)
  \/ \E d \in Instances : inst_stop_unlink(d)
  \/ \E c \in Clients, op \in SmartOps : smart_check(c, op)
  \/ \E c \in Clients : send_command_enter(c)
  \/ \E c \in Clients, ok, success \in BOOLEAN : send_command_exchange(c, ok, success)
  \/ \E c \in Clients, ok \in BOOLEAN : direct_open(c, ok)
  \/ \E c \in Clients, ok \in BOOLEAN : direct_finish(c, ok)
  \/ \E c \in Clients : smart_return(c)

\* The input levels play no part in the life of the instances.
InitLife == Init /\ inputs = AllFalse

SpecLife == InitLife /\ [][NextLife]_vars

\* ========================================================================
\* Properties of SpecLife
\* ========================================================================

\* C5 (as claimed): no smart client operation has its own transport to the
\* device open while a daemon is Running.
C5_DaemonOwnsDevice ==
  \A c \in Clients : cl_controller[c] = "open" => \A d \in Instances : ~Running(d)

\* C6 (as claimed): for one device identifier at most one instance is Running.
C6_SingleInstance == Cardinality({d \in Instances : Running(d)}) <= 1

\* C7 (as claimed): the liveness artifact is present whenever some instance is
\* Running, and absent once every started instance has stopped.
C7_ArtifactIffRunning ==
  /\ (\E d \in Instances : Running(d)) => is_daemon_running
  /\ (\A d \in Instances : inst_pc[d] \in {"new", "stopped"}) => ~is_daemon_running

\* C13: DaemonClient.send_command connects at most client_max_retries + 1 = 3
\* times in one call; it raises (the smart operation then falls back) either at
\* the liveness check, when the artifact is absent, without having connected, or
\* after the third failed exchange.
C13_SendCommandBounded ==
  [][\A c \in Clients :
       /\ cl_connects'[c] <= client_max_retries + 1
       /\ cl_path[c] = "daemon" /\ cl_path'[c] = "fallback" =>
            \/ cl_pc[c] = "send_command" /\ ~is_daemon_running /\ cl_connects'[c] = 0
            \/ cl_pc[c] = "exchange" /\ cl_connects'[c] = client_max_retries + 1
       /\ cl_pc[c] = "send_command" /\ cl_pc'[c] # "send_command" /\ ~is_daemon_running =>
            cl_path'[c] = "fallback" /\ cl_connects'[c] = 0]_vars

\* C13 witness: send_command has raised after three failed exchanges.
C13_Witness ==
  \E c \in Clients :
    cl_path[c] = "fallback" /\ cl_connects[c] = client_max_retries + 1 /\ cl_pc[c] = "direct"

\* C14: a smart operation that found no liveness artifact connects to no daemon
\* socket, works on its own transport, returns success when the device answered
\* correctly, and has closed that transport when it returns.
C14_DirectWhenAbsent ==
  \A c \in Clients :
    cl_path[c] = "direct" =>
      /\ cl_connects[c] = 0 /\ cl_attempt[c] = 0
      /\ cl_pc[c] \in {"direct", "direct_op", "done"}
      /\ cl_pc[c] = "done" => cl_controller[c] # "open"
      /\ cl_pc[c] = "done" /\ cl_result[c].success => cl_controller[c] = "closed"

\* C14 witness: a direct operation with no artifact present has succeeded.
C14_Witness ==
  \E c \in Clients :
    /\ cl_path[c] = "direct" /\ cl_pc[c] = "done"
    /\ cl_result[c].success /\ cl_controller[c] = "closed"
    /\ ~is_daemon_running

\* C15 (as claimed): the value returned tells the path: a failure after a daemon
\* attempt and a fallback never equals, as a returned value, the failure of the
\* same operation in direct mode with no daemon present.
C15_PathReported ==
  \A a, b \in Clients :
    (/\ cl_pc[a] = "done" /\ cl_pc[b] = "done"
     /\ cl_op[a] = cl_op[b]
     /\ cl_path[a] = "fallback" /\ cl_path[b] = "direct"
     /\ ~cl_result[a].success /\ ~cl_result[b].success)
    => cl_result[a] # cl_result[b]

\* ========================================================================
\* Properties of SpecRtu
\* ========================================================================

\* C19: _build_frame(unit, op, payload) is unit, op, payload followed by the two
\* bytes calculate returns for them, first the low then the high checksum byte,
\* len(payload) + 4 bytes in all; for 01 01 00 13 00 25 the checksum is
\* (0x0C, 0x14) and the frame 01 01 00 13 00 25 0C 14.
C19_BuildFrame ==
  /\ rtu_frame # <<>> =>
       /\ Len(rtu_frame) = (Len(rtu_data) - 2) + 4
       /\ SubSeq(rtu_frame, 1, Len(rtu_data)) = rtu_data
       /\ rtu_frame[Len(rtu_frame) - 1] = rtu_crc[1]
       /\ rtu_frame[Len(rtu_frame)] = rtu_crc[2]
  /\ rtu_data = Fixture /\ rtu_crc # <<>> => rtu_crc = <<12, 20>>
  /\ rtu_data = Fixture /\ rtu_frame # <<>> => rtu_frame = <<1, 1, 0, 19, 0, 37, 12, 20>>

\* C19 witness: the frame of the fixture request has been built.
C19_Witness == rtu_data = Fixture /\ rtu_pc = "built" /\ Len(rtu_frame) = 8

\* C20: verify accepts a byte sequence followed by the two bytes calculate
\* returns for it, and rejects it when the two trailing bytes are any others.
C20_VerifyIffChecksum ==
  rtu_pc = "verified" => (rtu_valid <=> rtu_rx = rtu_data \o rtu_crc)

\* C20 witness: a sequence whose last byte alone differs from the checksum has
\* been rejected.
C20_Witness ==
  /\ rtu_pc = "verified" /\ ~rtu_valid
  /\ Len(rtu_data) = MaxBytes
  /\ rtu_rx[Len(rtu_rx) - 1] = rtu_crc[1]
  /\ rtu_rx[Len(rtu_rx)] # rtu_crc[2]

\* C21: verify returns false for every input shorter than 2 bytes, and the
\* checksum of the empty sequence is the seed pair (0xFF, 0xFF).
C21_VerifyFailsClosed ==
  /\ rtu_pc \in {"verified", "verified_bare"} /\ Len(rtu_rx) < 2 => ~rtu_valid
  /\ rtu_data = <<>> /\ rtu_crc # <<>> => rtu_crc = <<255, 255>>

\* C21 witness: verify has been given a single byte.
C21_Witness == rtu_pc = "verified_bare" /\ Len(rtu_rx) = 1 /\ ~rtu_valid

\* C22: _parse_response rejects an input shorter than 4 bytes as too short
\* whatever its checksum, rejects an input of 4 or more bytes whose checksum
\* does not verify with a checksum error, and otherwise returns byte 0 as unit
\* address, byte 1 as operation code and the bytes between byte 1 and the last
\* two as payload.
C22_ParseResponse ==
  rtu_pc = "parsed" =>
    LET n == Len(rtu_rx)
        intact == n >= 2 /\ <<rtu_rx[n - 1], rtu_rx[n]>> = calculate(SubSeq(rtu_rx, 1, n - 2))
    IN  /\ n < 4 => rtu_parsed.error = "too_short"
        /\ n >= 4 /\ ~intact => rtu_parsed.error = "crc"
        /\ n >= 4 /\ intact =>
             /\ rtu_parsed.error = "none"
             /\ rtu_parsed.slave_id = rtu_rx[1]
             /\ rtu_parsed.function_code = rtu_rx[2]
             /\ rtu_parsed.data = SubSeq(rtu_rx, 3, n - 2)
             /\ Len(rtu_parsed.data) = n - 4

\* C22 witness: three bytes whose last two are the checksum of the first have
\* been rejected as too short.
C22_Witness ==
  /\ rtu_pc = "parsed" /\ Len(rtu_rx) = 3
  /\ rtu_rx = rtu_data \o rtu_crc
  /\ rtu_parsed.error = "too_short"

\* C24: _parse_response(_build_frame(unit, op, payload)) succeeds and yields
\* exactly unit, op and payload.
C24_RoundTrip ==
  rtu_pc = "parsed" /\ rtu_frame # <<>> /\ rtu_rx = rtu_frame =>
    rtu_parsed = Parsed("none", rtu_data[1], rtu_data[2], SubSeq(rtu_data, 3, Len(rtu_data)))

\* C24 witness: the frame built for the fixture request has been parsed back.
C24_Witness ==
  /\ rtu_pc = "parsed" /\ rtu_data = Fixture /\ rtu_rx = rtu_frame
  /\ rtu_parsed.data = <<0, 19, 0, 37>>

\* ========================================================================
\* Properties of SpecExec
\* ========================================================================

\* execute_request has returned a response to the operation that called it: the
\* operation has returned, or has raised while decoding the payload.
Accepted ==
  /\ rtu_pc = "done"
  /\ rtu_result.kind = "returned" \/ rtu_result.error \in {"index_error", "struct_error"}

\* C23 (as claimed): execute_request returns a response only if its unit address
\* and its operation code are those of the request; a response with the error
\* bit set is reported as a device error. The code never compares the operation
\* codes, so an intact response of the right unit with another operation code
\* is returned.
C23_ResponseMatchesRequest ==
  /\ Accepted =>
       /\ rtu_parsed.slave_id = rtu_req.slave_id
       /\ rtu_parsed.function_code = FunctionCode(rtu_req.fn)
  /\ /\ rtu_pc = "done" /\ rtu_parsed.error = "none"
     /\ rtu_parsed.slave_id = rtu_req.slave_id /\ is_error(rtu_parsed.function_code)
     => rtu_result = Outcome("raised", "device_error", <<>>)

\* The i-th bit (from 0) of the data bytes that follow the byte-count in payload.
PayloadBit(payload, i) == Bit(payload[2 + (i \div 8)], i % 8)

C26_RegistersDecoded ==
  Accepted /\ rtu_req.fn \in RegisterReads =>
    /\ rtu_result.kind = "returned"
    /\ Len(rtu_result.value) = rtu_req.count
    /\ \A i \in 0..(rtu_req.count - 1) :
         rtu_result.value[i + 1] = rtu_parsed.data[2 + 2 * i] * 256 + rtu_parsed.data[3 + 2 * i]

\* C27 (as claimed): write_single_coil sends addr (2 bytes, big-endian) and
\* 0xFF00 or 0x0000, and for every response execute_request accepts returns
\* true if the payload equals the request payload and false otherwise. The
\* code raises on a payload that is not 4 bytes long.
C27_WriteEchoCompared ==
  Accepted /\ rtu_req.fn = "write_single_coil" =>
    LET sent_payload == <<rtu_req.address \div 256, rtu_req.address % 256,
                          IF rtu_req.value THEN 255 ELSE 0, 0>>
    IN  /\ SubSeq(rtu_frame, 3, Len(rtu_frame) - 2) = sent_payload
        /\ rtu_result.kind = "returned"
        /\ rtu_result.value = (rtu_parsed.data = sent_payload)

\* The device has executed and echoed the earlier calls and this one.
ServedThroughout ==
  /\ \A k \in DOMAIN rtu_done : rtu_done[k].exec /\ rtu_done[k].echoed
  /\ rtu_exec /\ rtu_rx = rtu_frame

\* C28: against a device that executes and echoes, set_relay_state(r, true) made
\* again returns true each time, leaves relay r true, and the later call changes
\* no device state.
C28_SetTwiceIdempotent ==
  \A r \in {1, 2} :
    /\ rtu_pc = "done" /\ rtu_done # <<>>
    /\ rtu_req = set_relay_state(r, TRUE)
    /\ ServedThroughout
    => /\ \A k \in DOMAIN rtu_done : rtu_done[k].result = Outcome("returned", "none", TRUE)
       /\ rtu_result = Outcome("returned", "none", TRUE)
       /\ dev_coils[relay_start_address + r - 1]
       /\ dev_coils = rtu_done[Len(rtu_done)].coils

\* C28 witness: relay 2 has been set twice on such a device.
C28_Witness ==
  /\ rtu_pc = "done" /\ Len(rtu_done) = 1
  /\ rtu_req = set_relay_state(2, TRUE)
  /\ ServedThroughout
  /\ rtu_result.kind = "returned" /\ dev_coils[1] /\ ~dev_coils[0]

\* ========================================================================
\* Properties of SpecRecv
\* ========================================================================

\* C29 (as claimed): _receive_frame ends within the timeout of its call, give
\* or take the one tick a loop iteration may take, also when bytes keep
\* arriving. The code tests the timeout only in an iteration that finds no byte
\* waiting, so a call that finds a byte in every iteration goes on past it.
C29_ReceiveWithinTimeout ==
  rx_pc # "idle" => rx_now - rx_start <= TimeoutTicks + IdleTicks + 1

\* ========================================================================
\* Properties of SpecPulse
\* ========================================================================

\* C30 (as claimed): the daemon's pulse reports the success value of the direct
\* pulse for the same device behaviour: success only if the 'on' write and the
\* 'off' write were both acknowledged, and no 'off' write after a failed 'on'.
\* The daemon drops the results of both writes.
C30_PulseSameAsDirect ==
  /\ (\A p \in Paths : pl_pc[p] = "done") =>
       (pl_result["daemon"] = "true" <=> pl_result["direct"] = "true")
  /\ \A p \in Paths :
       /\ pl_result[p] = "true" => pl_dev["on"] = "ack" /\ pl_dev["off"] = "ack"
       /\ pl_dev["on"] # "ack" => \A k \in DOMAIN pl_writes[p] : pl_writes[p][k] # "off"

\* ========================================================================
\* Properties of SpecLife: a start that cannot open the device
\* ========================================================================

\* The instance whose connect() raised: a controller that is not open and no
\* server socket ever created.
FailedOpen(d) == inst_controller[d] = "closed" /\ inst_socket[d] = "none"

\* C31: when the serial device cannot be opened, start() goes through stop()
\* to the stopped state; from the failed connect() on the instance never
\* creates or binds its socket, never owns the socket path, never sets running
\* and never answers a connection.
C31_FailedOpenStops ==
  [][\A d \in Instances :
       (inst_pc[d] = "new" /\ inst_controller'[d] = "closed") \/ FailedOpen(d) =>
         /\ FailedOpen(d)'
         /\ inst_pc'[d] \in {"stop_running", "stop_disconnect", "stop_close", "stop_unlink", "stopped"}
         /\ ~inst_running'[d]
         /\ socket_path' # d
         /\ ~Answers(d)']_vars

\* An instance whose connect() failed has run stop() to its end.
C31_Witness ==
  \E d \in Instances : FailedOpen(d) /\ inst_pc[d] = "stopped" /\ ~inst_running[d]

\* ========================================================================
\* Properties of Spec: the poll cycle and the status cache
\* ========================================================================

\* C32: the status cache is written only in the step that ends a poll cycle
\* whose relay read and input read were both received, and it then takes the
\* two tables just read; a cycle that ends before the input read is answered,
\* or whose input read fails, leaves the three cache fields as they were.
C32_CacheOnlyAfterBothReads ==
  [][/\ cacheVars' # cacheVars =>
          /\ \E exec \in BOOLEAN, reply \in Replies :
                poll_inputs_done(exec, reply) /\ Received(exec, reply)
          /\ last_relay_states' = relay_list /\ last_input_states' = inputs
     /\ pc[Poller] \in {"poll_relays", "poll_relays_wait", "poll_inputs"}
          /\ pc'[Poller] = "poll_sleep" => UNCHANGED cacheVars
     /\ \A exec \in BOOLEAN, reply \in Replies :
          poll_inputs_done(exec, reply) /\ ~Received(exec, reply) => UNCHANGED cacheVars]_vars

\* The cache holds an earlier poll with the relay on; the current cycle has
\* read the relay as off, and its input read fails because the transport is
\* closed: the cache keeps the earlier poll.
C32_Witness ==
  /\ last_status_time > 0 /\ last_relay_states[1]
  /\ pc[Poller] = "poll_inputs_wait" /\ ~is_connected
  /\ ~relay_list[1]

\* ========================================================================
\* Properties of SpecLife: the client's connection
\* ========================================================================

\* C33 (as claimed): when send_command has returned or raised, the connection
\* it opened is closed. The code closes client_socket only after a decoded
\* response; a pass that fails after connect() leaves it connected, and the
\* socket of the last pass is still connected when send_command raises.
C33_ConnectionClosedOnExit ==
  \A c \in Clients :
    cl_pc[c] \in {"direct", "direct_op", "done"} => cl_socket[c] # "connected"

\* ========================================================================
\* Properties of SpecRtu: the checksum
\* ========================================================================

\* The update rule as stated, run over the bytes in order: both accumulators
\* seeded 0xFF; index = hi XOR byte; hi = lo XOR hiTable[index]; lo = loTable[index].
Accumulators(data) ==
  LET acc[n \in 0..Len(data)] ==
        IF n = 0 THEN [hi |-> 255, lo |-> 255]
        ELSE LET index == Xor(acc[n - 1].hi, data[n])
             IN  [hi |-> Xor(acc[n - 1].lo, CRC_HI_TABLE[index + 1]), lo |-> CRC_LO_TABLE[index + 1]]
  IN  acc[Len(data)]

\* CRC-16/MODBUS bit by bit: register 0xFFFF, each byte XORed into the low
\* byte, eight right shifts with polynomial 0xA001.
ShiftCrc(crc) ==
  LET shifted[k \in 0..8] ==
        IF k = 0 THEN crc
        ELSE IF shifted[k - 1] % 2 = 1 THEN XorBits(shifted[k - 1] \div 2, 40961, 16)
        ELSE shifted[k - 1] \div 2
  IN  shifted[8]

BitwiseCrc(data) ==
  LET register[n \in 0..Len(data)] ==
        IF n = 0 THEN 65535 ELSE ShiftCrc(XorBits(register[n - 1], data[n], 16))
  IN  register[Len(data)]

\* C34 (as claimed): calculate returns the pair (final lo, final hi) of the
\* update rule's accumulators.
C34_ReturnsLoThenHi ==
  rtu_pc = "calculated" =>
    LET acc == Accumulators(rtu_data) IN rtu_crc = <<acc.lo, acc.hi>>

\* C34 (amended): calculate returns the pair (final hi, final lo) of the update
\* rule's accumulators seeded 0xFF, and that pair is (lowByte, highByte) of the
\* CRC-16/MODBUS checksum: the accumulator named hi holds the low byte.
C34_ReturnsHiThenLo ==
  rtu_pc = "calculated" =>
    LET acc == Accumulators(rtu_data)
        crc == BitwiseCrc(rtu_data)
    IN  /\ rtu_crc = <<acc.hi, acc.lo>>
        /\ rtu_crc = <<crc % 256, crc \div 256>>

\* C34 witness: a checksum of MaxBytes bytes whose two bytes differ.
C34_Witness ==
  rtu_pc = "calculated" /\ Len(rtu_data) = MaxBytes /\ rtu_crc[1] # rtu_crc[2]

\* ========================================================================
\* Properties of SpecLife: fallback to the direct mode
\* ========================================================================

\* C35: a smart operation whose last exchange with the daemon fails goes on to
\* the direct mode and what it returns is the direct mode's result; an
\* operation the daemon has answered, with success true or false, returns that
\* answer, opens no transport of its own and never enters the direct mode.
C35_FallbackOnlyWhenUnanswered ==
  [][\A c \in Clients :
       /\ cl_pc[c] = "exchange" /\ cl_attempt[c] = client_max_retries
            /\ cl_connects'[c] # cl_connects[c] /\ cl_pc'[c] # "done" =>
            /\ cl_pc'[c] = "direct" /\ cl_path'[c] = "fallback"
            /\ cl_connects'[c] = client_max_retries + 1
       /\ cl_path'[c] = "fallback" /\ cl_pc[c] # "done" /\ cl_pc'[c] = "done" =>
            /\ cl_pc[c] \in {"direct", "direct_op"}
            /\ \E ok \in BOOLEAN : cl_result'[c] = DirectResult(cl_op[c], ok)
            /\ cl_result'[c].success => cl_controller[c] = "open" /\ cl_controller'[c] = "closed"
       /\ cl_pc[c] = "exchange" /\ cl_pc'[c] = "done" =>
            /\ Listening
            /\ cl_path'[c] = "daemon" /\ cl_controller'[c] = "none"
            /\ \E success \in BOOLEAN : cl_result'[c] = DaemonResult(cl_op[c], success)
       /\ cl_path[c] = "daemon" /\ cl_pc[c] = "done" =>
            cl_pc'[c] \in {"done", "idle"} /\ cl_controller'[c] = "none"]_vars

\* C35 witness: the artifact is there and nothing listens behind it; a status
\* operation has made its three exchanges, fallen back and returned the
\* successful direct result.
C35_Witness ==
  \E c \in Clients :
    /\ is_daemon_running /\ ~Listening
    /\ cl_path[c] = "fallback" /\ cl_connects[c] = client_max_retries + 1
    /\ cl_pc[c] = "done" /\ cl_op[c] = "status"
    /\ cl_result[c] = DirectResult("status", TRUE) /\ cl_controller[c] = "closed"

\* ========================================================================
\* Properties of Spec: the serial lock
\* ========================================================================

\* Thread t is inside its locked region: a handler between the acquire and the
\* finally clause of _handle_client_safe, the poller between its acquire and
\* its finally clause.
InLocked(t) ==
  IF t = Poller
  THEN pc[t] \in {"poll_relays", "poll_relays_wait", "poll_inputs", "poll_inputs_wait"}
  ELSE pc[t] \in {"process", "set_wait", "tog_read_wait", "tog_write", "tog_write_wait",
                  "pulse_on_wait", "pulse_sleep", "pulse_off_wait"}

\* C39: a thread holds serial_lock exactly while it is inside its locked
\* region: whatever the outcome (success, an exception at any attempt, an
\* unknown command), leaving the region releases the lock, so the lock is free
\* whenever no thread is inside; and the holder can always take its next step,
\* waiting for no other thread.
C39_LockHeldOnlyWhileProcessing ==
  /\ \A t \in Threads : InLocked(t) <=> serial_lock = t
  /\ \A h \in Handlers : serial_lock = h => ENABLED HandlerStep(h)
  /\ serial_lock = Poller => ENABLED PollerStep

\* C39 witness: a handler has given up after the exception of its last
\* attempt and the lock is free again, with another handler waiting for it.
C39_Witness ==
  \E h \in Handlers :
    /\ pc[h] = "send" /\ attempt[h] = max_retries /\ ~response[h].success
    /\ serial_lock = NoThread
    /\ \E g \in Handlers \ {h} : pc[g] = "acquire"

\* ========================================================================
\* Properties of Spec: the order of stop()
\* ========================================================================

\* C36 (as claimed): stop() stops accepting connections before it closes the
\* transport: the transport is never closed while the server socket still
\* listens. The code calls controller.disconnect() before server_socket.close().
C36_AcceptingStopsFirst ==
  controller = "closed" => server_socket # "listening"

\* ========================================================================
\* Properties of SpecToggle
\* ========================================================================

\* C37 (as claimed): one toggle invocation changes the state of the relay at
\* most once, and exactly once when it reports success. A write that the
\* device executed and whose echo was lost is repeated by the daemon's retry
\* with a fresh read, and again by the client's next pass and by the direct
\* mode.
C37_ToggleAtMostOnce ==
  /\ tg_changes <= 1
  /\ tg_pc = "done" /\ tg_result = "true" => tg_changes = 1

\* ========================================================================
\* Properties of SpecStatus
\* ========================================================================

\* C38: every get_status response that carries the status fields carries
\* three fields written by one and the same poll cycle, or all three as
\* __init__ left them, whatever the interleaving of the poller's assignments
\* with the handlers' reads.
C38_ResponseFromOnePoll ==
  \A h \in Handlers :
    Len(sc_response[h]) = 3 =>
      sc_response[h][1] = sc_response[h][2] /\ sc_response[h][2] = sc_response[h][3]

\* C38 witness: a handler is about to send the fields of the first poll cycle
\* while the poller is in the middle of the assignments of the second.
C38_Witness ==
  \E h \in Handlers :
    /\ sc_pc[h] = "send" /\ sc_response[h] = <<1, 1, 1>>
    /\ sc_pc[Poller] = Fields[2] /\ sc_cache = <<2, 1, 1>>

\* C40 (as claimed): once stop() has completed, no thread writes the status
\* cache. stop() waits for no thread: a poller whose reads returned before the
\* transport was closed goes on to its three assignments.
C40_QuietAfterStop ==
  [][sc_main = "stopped" => sc_cache' = sc_cache]_vars

====
